---- MODULE Spec2Model ----
(***************************************************************************)
(* A model of the Strava ingestion pipeline of my_strava:                  *)
(*   - StravaClient (jobs/strava_client.py): token handling, the rate      *)
(*     limit gate, fetch_activities, fetch_activity_stream,                *)
(*     get_segment_efforts and the job records;                            *)
(*   - ActivityLoader.save_activities (jobs/activity_loader.py);           *)
(*   - StreamLoader.load_missing_streams (jobs/stream_loader.py);          *)
(*   - SegmentLoader.load_missing_segments (jobs/segment_loader.py);       *)
(*   - TrainingLoadCalculator (jobs/training_load.py) and the sync of      *)
(*     jobs/strava_sync.py that writes the same table;                     *)
(*   - PowerCalculator (jobs/power_metrics.py).                            *)
(* Each component has its own specifications (SpecRate, SpecUsage,         *)
(* SpecClient, SpecToken, SpecSave, SpecStream, SpecStreamKinds,           *)
(* SpecReruns, SpecSegments, SpecSegmentsRepeated, SpecJobs, SpecTraining, *)
(* SpecFtp, SpecPower) over the one set of variables below; a              *)
(* specification leaves the variables of the other components alone.       *)
(***************************************************************************)
EXTENDS Integers, Sequences, FiniteSets, TLC

VARIABLES
    \* ---- StravaClient fields
    access_token,       \* self.access_token: 0 is None, k > 0 the k-th token issued
    token_expires_at,   \* self.token_expires_at (epoch seconds)
    env_file,           \* STRAVA_ACCESS_TOKEN and STRAVA_TOKEN_EXPIRES_AT in .env
    api_usage,          \* self._api_usage: <<short_term used, daily used>>
    \* ---- environment seen by the client
    now,                \* time.time()
    posts,              \* number of POSTs sent to the OAuth token endpoint
    gets,               \* log of the GET requests sent, oldest first
    sleeps,             \* log of the time.sleep durations, oldest first
    \* ---- one check_rate_limits call (SpecRate)
    rl_headers,         \* the response headers handed to check_rate_limits
    rl_clock,           \* seconds since UTC midnight when it runs
    rl_result,          \* "none" before the call, then "ok" (True) or "wait" (False)
    \* ---- one call of fetch_activities, fetch_activity_stream or
    \*      get_segment_efforts: its locals and its position
    call,
    provider_pages,     \* how many non-empty pages the provider holds for `after`
    last_resp,          \* the response the last loop iteration handled
    transient_failures, \* 429, other HTTP errors and network errors seen by the call
    \* ---- jobs (threads) sharing the client, each inside get_access_token
    thr,                \* per thread: position, force_refresh, locals, return value
    \* ---- the database and ActivityLoader.save_activities
    db_activities,      \* committed rows of table activities, in insertion order
    batch,              \* the list of activity summaries handed to save_activities
    save_runs,          \* how many times save_activities(batch) has run
    save_last,          \* the last run: rows inserted, records skipped, return value
    after_first_save,   \* the committed rows when the first run returned
    \* ---- StreamLoader.load_missing_streams
    token_failures,     \* how many calls of get_access_token returned None
    loader,             \* the run: position, candidates, index, counters, return value
    session,            \* the rows as the SQLAlchemy session holds them (uncommitted)
    \* ---- SegmentLoader.load_missing_segments
    db_segments,        \* committed rows of table segments: the set of their strava_ids
    db_efforts,         \* committed rows of table segment_efforts
    seg_loader,         \* the run: position, activities, index, efforts, return value
    \* ---- job tracking (start_job, end_job, get_job_status)
    jobs_db,            \* committed rows of table jobs, by job id
    jobs_mem,           \* self._jobs, by job id
    jobs_ended,         \* by job id: the success value of the last end_job that returned
    job_query,          \* the last get_job_status call: its job id and what it returned
    \* ---- training load
    tl_activities,      \* table activities as sync_training_load reads it, by start_date
    ftp_history,        \* table ftp_history
    training_load,      \* table training_load, in id order
    tl_sync,            \* the runs of the training-load sync so far and the last one's result
    \* ---- power calculator
    pm_stream,          \* the stream_data given to calculate_power_intervals
    pm_result,          \* what the best-interval part of calculate_power_intervals gave
    ftp_query,          \* the last get_ftp_for_date call: its date and what it returned
    \* ---- threads inside check_rate_limits and get_api_usage
    usage_lock,         \* self._lock: 0 when free, or the thread that holds it
    usage_thr,          \* by thread: where it is in its call, and its locals
    usage_applied       \* the usage pairs of the responses whose update has been made

clientFields == <<access_token, token_expires_at, env_file, api_usage>>
envVars == <<now, posts, gets, sleeps, token_failures>>
rateVars == <<rl_headers, rl_clock, rl_result>>
callVars == <<call, provider_pages, last_resp, transient_failures>>

dbVars == <<db_activities>>
saveVars == <<batch, save_runs, save_last, after_first_save>>

loadVars == <<loader, session>>

segVars == <<db_segments, db_efforts, seg_loader>>
jobVars == <<jobs_db, jobs_mem, jobs_ended, job_query>>
tlVars == <<tl_activities, ftp_history, training_load, tl_sync, ftp_query>>
usageVars == <<usage_lock, usage_thr, usage_applied>>
pmVars == <<pm_stream, pm_result>>

vars == <<clientFields, envVars, rateVars, callVars, thr, dbVars, saveVars, loadVars, segVars,
          jobVars, tlVars, pmVars, usageVars>>

(***************************************************************************)
(* Header values.  A header is absent or a string; a string is modelled by *)
(* the fields that split(",") yields, each field either the text of an     *)
(* integer (int() succeeds) or some other text (int() raises ValueError).  *)
(* The empty string is the header with no fields.                          *)
(***************************************************************************)
Tok(n) == [num |-> TRUE, val |-> n]
BadTok == [num |-> FALSE, val |-> 0]
Hdr(parts) == [present |-> TRUE, parts |-> parts]
NoHdr == [present |-> FALSE, parts |-> <<>>]
Pair(a, b) == Hdr(<<Tok(a), Tok(b)>>)

\* The components at rest.
NoLoader ==
    [pc |-> "idle", runs |-> 0, activities |-> <<>>, idx |-> 0, updated_count |-> 0,
     skipped_count |-> 0, error_count |-> 0, updated |-> {}, rolled_back |-> {},
     ret |-> FALSE]
\* A job id is f"{job_type}_{int(time.time())}": the type and the second.
JobTypes == {"activities", "streams"}
\* the last second at which a job is started
MaxJobTime == 1
JobIds == JobTypes \X (0..MaxJobTime)
\* No row, no entry (None).
NoJob == [status |-> "absent", success |-> "None"]
NoQuery == [id |-> <<>>, result |-> NoJob]
NoSync ==
    [runs |-> 0, who |-> "none", after_date |-> -1, loads |-> <<>>, before |-> <<>>,
     inserts |-> 0, updates |-> 0, ret |-> FALSE, rerun |-> FALSE]
NoStream == [watts |-> <<>>, time |-> <<>>]
NotCalculated == [state |-> "none"]
PowerIdle ==
    /\ pm_stream = NoStream
    /\ pm_result = NotCalculated
NoFtpQuery == [date |-> -1, result |-> -1]
TrainingIdle ==
    /\ tl_activities = <<>>
    /\ ftp_history = {}
    /\ training_load = <<>>
    /\ tl_sync = NoSync
    /\ ftp_query = NoFtpQuery
\* the threads sharing the client's usage counters
NumUsageThreads == 3
UsageThreads == 1..NumUsageThreads
NoUsageFrame ==
    [pc |-> "idle", fn |-> "none", header |-> NoHdr, usage |-> <<>>,
     short_term |-> -1, daily |-> -1]
UsageIdle ==
    /\ usage_lock = 0
    /\ usage_thr = [t \in UsageThreads |-> NoUsageFrame]
    /\ usage_applied = {}
JobsIdle ==
    /\ jobs_db = [id \in JobIds |-> NoJob]
    /\ jobs_mem = [id \in JobIds |-> NoJob]
    /\ jobs_ended = [id \in JobIds |-> "None"]
    /\ job_query = NoQuery
NoSegLoader ==
    [pc |-> "idle", runs |-> 0, limit |-> 0, activities |-> <<>>, idx |-> 0, efforts |-> <<>>,
     eidx |-> 0, loaded |-> FALSE, inserted |-> {}, skipped |-> {}, errors |-> 0,
     ret |-> FALSE]
SegmentsIdle ==
    /\ db_segments = {}
    /\ db_efforts = {}
    /\ seg_loader = NoSegLoader
LoaderIdle ==
    /\ loader = NoLoader
    /\ session = <<>>
DbEmpty == db_activities = <<>>
NoSave == [inserted |-> 0, skipped |-> 0, ret |-> FALSE]
SaveIdle ==
    /\ batch = <<>>
    /\ save_runs = 0
    /\ save_last = NoSave
    /\ after_first_save = <<>>
ClientInit ==
    /\ access_token = 0
    /\ token_expires_at = 0
    /\ env_file = <<0, 0>>
    /\ api_usage = <<0, 0>>

EnvInit ==
    /\ now = 0
    /\ posts = 0
    /\ gets = <<>>
    /\ sleeps = <<>>
    /\ token_failures = 0

RateIdle ==
    /\ rl_headers = [usage |-> NoHdr, limit |-> NoHdr, read_usage |-> NoHdr,
                     read_limit |-> NoHdr, reset |-> NoHdr]
    /\ rl_clock = 0
    /\ rl_result = "none"

\* default_limits of check_rate_limits
DefaultUsageShort == 0
DefaultUsageDaily == 0
DefaultLimitShort == 100
DefaultLimitDaily == 1000
\* the margin below the short-window limit at which the gate closes
ShortMargin == 2
\* the sleep when X-RateLimit-Reset cannot be used
DefaultResetSleep == 15
\* seconds added to the wait until UTC midnight
MidnightBuffer == 30
SecondsPerDay == 86400

parse_header_blocking(header, default) ==
    IF ~header.present \/ header.parts = <<>> THEN <<DefaultLimitShort, DefaultLimitDaily>>
    ELSE IF Len(header.parts) # 2 THEN <<DefaultLimitShort, DefaultLimitDaily>>
    ELSE IF \E i \in 1..2 : ~header.parts[i].num THEN <<DefaultLimitShort, DefaultLimitDaily>>
    ELSE <<header.parts[1].val, header.parts[2].val>>

\* parse_header(header, default), the local function of check_rate_limits
parse_header(header, default) ==
    IF ~header.present \/ header.parts = <<>> THEN default
    ELSE IF Len(header.parts) # 2 THEN default
    ELSE IF \E i \in 1..2 : ~header.parts[i].num THEN default
    ELSE <<header.parts[1].val, header.parts[2].val>>

\* StravaClient._parse_rate_limit_header: the pair, or <<>> for None
parse_rate_limit_header(header) ==
    IF ~header.present \/ header.parts = <<>> THEN <<>>
    ELSE IF Len(header.parts) # 2 THEN <<>>
    ELSE IF \E i \in 1..2 : ~header.parts[i].num THEN <<>>
    ELSE <<header.parts[1].val, header.parts[2].val>>

\* The sleeps of the short-window branch: int(headers.get("X-RateLimit-Reset",
\* "15")) then time.sleep(reset_time); a ValueError (int() of a non-integer, or
\* time.sleep of a negative number, raised before any sleeping) gives sleep(15).
ResetSleeps(reset) ==
    IF ~reset.present THEN <<DefaultResetSleep>>
    ELSE IF Len(reset.parts) # 1 \/ ~reset.parts[1].num THEN <<DefaultResetSleep>>
    ELSE IF reset.parts[1].val < 0 THEN <<DefaultResetSleep>>
    ELSE <<reset.parts[1].val>>

\* The sleep of the daily branch: until the next UTC midnight plus 30 s.
MidnightSleeps(clock) == <<(SecondsPerDay - clock) + MidnightBuffer>>

\* The update of self._api_usage made under self._lock.
UsageAfter(old, headers) ==
    LET usage == parse_rate_limit_header(headers.usage)
    IN  IF usage # <<>> THEN usage ELSE old

ShortGateClosedAlt(usage, limits, read_usage, read_limits) ==
    usage[1] > limits[1] - ShortMargin \/ read_usage[1] > read_limits[1] - ShortMargin

\* "if usage_short >= limit_short - 2 or read_usage_short >= read_limit_short - 2"
ShortGateClosed(usage, limits, read_usage, read_limits) ==
    usage[1] >= limits[1] - ShortMargin \/ read_usage[1] >= read_limits[1] - ShortMargin

\* "if usage_daily >= limit_daily or read_usage_daily >= read_limit_daily"
DailyGateClosed(usage, limits, read_usage, read_limits) ==
    usage[2] >= limits[2] \/ read_usage[2] >= read_limits[2]

\* StravaClient.check_rate_limits(headers): what it returns, how it slept.
check_rate_limits(headers, clock) ==
    LET usage == parse_header(headers.usage, <<DefaultUsageShort, DefaultUsageDaily>>)
        limits == parse_header(headers.limit, <<DefaultLimitShort, DefaultLimitDaily>>)
        read_usage == parse_header(headers.read_usage, <<DefaultUsageShort, DefaultUsageDaily>>)
        read_limits == parse_header(headers.read_limit, <<DefaultLimitShort, DefaultLimitDaily>>)
    IN  IF ShortGateClosed(usage, limits, read_usage, read_limits)
        THEN [ok |-> FALSE, slept |-> ResetSleeps(headers.reset)]
        ELSE IF DailyGateClosed(usage, limits, read_usage, read_limits)
        THEN [ok |-> FALSE, slept |-> MidnightSleeps(clock)]
        ELSE [ok |-> TRUE, slept |-> <<>>]

(***************************************************************************)
(* The header values the specifications draw from.                         *)
(***************************************************************************)
\* how far below a limit the drawn usages go
MaxSlack == 3
\* the X-RateLimit-Reset values drawn are 0, 15, ..., 15 * MaxResetSteps
MaxResetSteps == 2

ShortLimits == {DefaultLimitShort, 2 * DefaultLimitShort}
DailyLimits == {DefaultLimitDaily}
ShortUsages == {0} \cup {DefaultLimitShort - k : k \in 0..MaxSlack}
                   \cup {2 * DefaultLimitShort - ShortMargin}
DailyUsages == {10, DefaultLimitDaily}
MalformedPairs == {NoHdr, Hdr(<<>>), Hdr(<<Tok(99)>>), Hdr(<<Tok(99), BadTok>>)}
UsageHeaders == MalformedPairs \cup {Pair(s, d) : s \in ShortUsages, d \in DailyUsages}
LimitHeaders == MalformedPairs \cup {Pair(s, d) : s \in ShortLimits, d \in DailyLimits}
ResetHeaders == {NoHdr, Hdr(<<BadTok>>), Hdr(<<Tok(-1)>>)}
                    \cup {Hdr(<<Tok(DefaultResetSleep * k)>>) : k \in 0..MaxResetSteps}
Clocks == {0, SecondsPerDay - 1}
AllHeaders ==
    [usage : UsageHeaders, limit : LimitHeaders,
     read_usage : UsageHeaders, read_limit : LimitHeaders, reset : ResetHeaders]

(***************************************************************************)
(* The calls of StravaClient that talk to the provider.                    *)
(***************************************************************************)
\* "self.token_expires_at > current_time + 60"
TokenMargin == 60
\* params per_page of fetch_activities
PerPage == 200
\* time.sleep(2) after each page
InterPageDelay == 2
\* max_retries, retry_delay, max_token_refresh_attempts
MaxRetries == 3
InitialRetryDelay == 2
MaxTokenRefreshAttempts == 3
\* the validity the token endpoint gives a new token
TokenLifetime == 21600
\* the JSON null of a stream sample
NoneVal == -1

RECURSIVE SumSeq(_)
SumSeq(q) == IF q = <<>> THEN 0 ELSE Head(q) + SumSeq(Tail(q))

Result(kind, items) == [kind |-> kind, items |-> items]
Pending == Result("pending", <<>>)
\* return None, return [] and a returned list or mapping
ReturnNone == Result("none", <<>>)
ReturnEmptyList == Result("list", <<>>)
Falsy(r) == r.kind = "none" \/ (r.kind = "list" /\ r.items = <<>>)

NoCall ==
    [fn |-> "none", pc |-> "idle", arg |-> 0, page |-> 0, activities |-> <<>>,
     token_refresh_attempts |-> 0, attempt |-> 0, retry_delay |-> 0,
     token |-> 0, result |-> Pending]
NoResp == [kind |-> "none", status |-> 0, gate |-> "none"]

CallIdle ==
    /\ call = NoCall
    /\ provider_pages = 0
    /\ last_resp = NoResp
    /\ transient_failures = 0

\* _save_tokens_to_env(): both values are written to the .env file.
save_tokens_to_env(token, expires) == <<token, expires>>

\* get_access_token(force_refresh) run to its end: the cached token (no
\* request), or one POST to the token endpoint that succeeds or fails with a
\* RequestException (return None).
NeedsRefreshAlways(force) == TRUE
NeedsRefresh(force) ==
    ~(~force /\ access_token # 0 /\ token_expires_at > now + TokenMargin)
TokenOutcomes(force) ==
    IF ~NeedsRefresh(force)
    THEN {[ok |-> TRUE, posted |-> 0, token |-> access_token,
           expires |-> token_expires_at]}
    ELSE {[ok |-> TRUE, posted |-> 1, token |-> posts + 2,
           expires |-> now + TokenLifetime],
          [ok |-> FALSE, posted |-> 1, token |-> access_token,
           expires |-> token_expires_at]}

(***************************************************************************)
(* get_access_token run by concurrent jobs: the function takes no lock, so *)
(* its statements interleave.  A thread passes the validity test (lines    *)
(* 48-52), sends the POST (57-67), then stores the token (70-78).          *)
(***************************************************************************)
\* the jobs sharing the client
NumThreads == 2
Threads == 1..NumThreads

NoFrame ==
    [pc |-> "idle", force |-> FALSE, saw_stale |-> FALSE, failed |-> FALSE,
     posted |-> 0, token_data |-> <<0, 0>>, result |-> 0]
ThreadsIdle == thr = [t \in Threads |-> NoFrame]

\* get_access_token(force_refresh) is entered.
GAT_Call(t, force) ==
    /\ thr[t].pc = "idle"
    /\ thr' = [thr EXCEPT ![t] = [NoFrame EXCEPT !.pc = "check", !.force = force]]
    /\ UNCHANGED <<clientFields, envVars, rateVars, callVars, dbVars, saveVars, loadVars, segVars,
                   jobVars, tlVars, pmVars, usageVars>>

\* "if not force_refresh and self.access_token and self.token_expires_at >
\*  current_time + 60: return self.access_token"
GAT_Check(t) ==
    /\ thr[t].pc = "check"
    /\ thr' = [thr EXCEPT ![t] =
                 IF NeedsRefresh(thr[t].force)
                 THEN [@ EXCEPT !.pc = "post", !.saw_stale = TRUE]
                 ELSE [@ EXCEPT !.pc = "done", !.result = access_token]]
    /\ UNCHANGED <<clientFields, envVars, rateVars, callVars, dbVars, saveVars, loadVars, segVars,
                   jobVars, tlVars, pmVars, usageVars>>

\* requests.post(...) and raise_for_status(): the exchange succeeds and
\* token_data is read, or a RequestException makes the function return None.
GAT_Post(t) ==
    /\ thr[t].pc = "post"
    /\ posts' = posts + 1
    /\ \E ok \in BOOLEAN :
        /\ thr' = [thr EXCEPT ![t] =
                 IF ok
                 THEN [@ EXCEPT !.pc = "store", !.posted = @ + 1,
                                !.token_data = <<posts + 2, now + TokenLifetime>>]
                 ELSE [@ EXCEPT !.pc = "done", !.posted = @ + 1, !.failed = TRUE,
                                !.result = 0]]
        /\ token_failures' = token_failures + (IF ok THEN 0 ELSE 1)
    /\ UNCHANGED <<clientFields, now, gets, sleeps, rateVars, callVars, dbVars, saveVars, loadVars,
                   segVars, jobVars, tlVars, pmVars, usageVars>>

\* self.access_token = ...; self.token_expires_at = ...; _save_tokens_to_env();
\* return self.access_token
GAT_Store(t) ==
    /\ thr[t].pc = "store"
    /\ access_token' = thr[t].token_data[1]
    /\ token_expires_at' = thr[t].token_data[2]
    /\ env_file' = save_tokens_to_env(thr[t].token_data[1], thr[t].token_data[2])
    /\ thr' = [thr EXCEPT ![t] = [@ EXCEPT !.pc = "done", !.result = thr[t].token_data[1]]]
    /\ UNCHANGED <<api_usage, envVars, rateVars, callVars, dbVars, saveVars, loadVars, segVars,
                   jobVars, tlVars, pmVars, usageVars>>

\* get_access_token is not called: the token fields stay as they are.
NoTokenCall ==
    [ok |-> FALSE, posted |-> 0, token |-> access_token, expires |-> token_expires_at]

\* The page the provider returns: two items stand for a page of up to 200.
ProviderPage(p) == IF p <= provider_pages THEN <<2 * p - 1, 2 * p>> ELSE <<>>

\* The headers and bodies the provider's responses are drawn from.
CallHeaders ==
    [usage : {Pair(10, 10), Pair(99, 10)}, limit : {Pair(100, 1000)},
     read_usage : {NoHdr}, read_limit : {NoHdr},
     reset : {NoHdr, Hdr(<<BadTok>>), Hdr(<<Tok(30)>>)}]
Statuses == {200, 401, 404, 429, 500}
Stream(type, data) == [type |-> type, data |-> data]
StreamBodies ==
    {[is_list |-> FALSE, items |-> <<>>],
     [is_list |-> TRUE, items |-> <<Stream("time", <<0, 1>>), Stream("watts", <<100, 200>>)>>],
     [is_list |-> TRUE, items |-> <<Stream("time", <<0, 1>>), Stream("watts", <<NoneVal, NoneVal>>)>>],
     [is_list |-> TRUE, items |-> <<Stream("time", <<0, 1>>), Stream("watts", <<>>)>>],
     [is_list |-> TRUE, items |-> <<Stream("time", <<0, 1>>)>>],
     [is_list |-> TRUE, items |-> <<Stream("watts", <<100, 200>>)>>]}
EffortBodies ==
    {[is_list |-> TRUE, items |-> <<>>], [is_list |-> TRUE, items |-> <<1, 2>>]}
Bodies(c) ==
    IF c.fn = "fetch_activities" THEN {[is_list |-> TRUE, items |-> ProviderPage(c.page)]}
    ELSE IF c.fn = "fetch_activity_stream" THEN StreamBodies
    ELSE EffortBodies
NoBody == [is_list |-> FALSE, items |-> <<>>]
\* A response, or a RequestException raised by requests.get (no response).
Responses(c) ==
    {[kind |-> "neterror", status |-> 0,
      headers |-> [usage |-> NoHdr, limit |-> NoHdr, read_usage |-> NoHdr,
                   read_limit |-> NoHdr, reset |-> NoHdr],
      body |-> NoBody]}
    \cup {[kind |-> "response", status |-> st, headers |-> h, body |-> NoBody] :
            st \in Statuses \ {200}, h \in CallHeaders}
    \cup {[kind |-> "response", status |-> 200, headers |-> h, body |-> b] :
            h \in CallHeaders, b \in Bodies(c)}

Request(c) ==
    [fn |-> c.fn, arg |-> c.arg, page |-> c.page,
     per_page |-> IF c.fn = "fetch_activities" THEN PerPage ELSE 0,
     token |-> c.token]

Transient(resp) == resp.kind = "neterror" \/ resp.status \in {429, 500}

\* The call returns r.
Return(c, r) == [c EXCEPT !.pc = "done", !.result = r]

\* The first lines of the three functions: token = self.get_access_token();
\* "if not token: return []" (None in the other two), then the locals.
StartCall(fn, arg) ==
    /\ call.pc = "idle"
    /\ \E tk \in TokenOutcomes(FALSE) :
        /\ access_token' = tk.token
        /\ token_expires_at' = tk.expires
        /\ env_file' = IF tk.ok /\ tk.posted = 1
                       THEN save_tokens_to_env(tk.token, tk.expires) ELSE env_file
        /\ posts' = posts + tk.posted
        /\ token_failures' = token_failures + (IF tk.ok THEN 0 ELSE 1)
        /\ call' = IF ~tk.ok
                   THEN Return([NoCall EXCEPT !.fn = fn, !.arg = arg],
                               IF fn = "fetch_activities" THEN ReturnEmptyList
                               ELSE ReturnNone)
                   ELSE [NoCall EXCEPT !.fn = fn, !.arg = arg, !.pc = "loop",
                                       !.page = IF fn = "fetch_activities" THEN 1 ELSE 0,
                                       !.retry_delay = IF fn = "fetch_activities" THEN 0
                                                       ELSE InitialRetryDelay,
                                       !.token = tk.token]
    /\ gets' = <<>>
    /\ sleeps' = <<>>
    /\ last_resp' = NoResp
    /\ transient_failures' = 0
    /\ UNCHANGED <<api_usage, now, provider_pages, rateVars, thr, dbVars, saveVars, session,
                   db_segments, db_efforts, jobVars, tlVars, pmVars, usageVars>>

\* What one iteration of a loop does is computed as a record: the call's
\* locals after it, the sleeps it made, and whether the rate gate ran.
Outcome(c, slept, gate) == [call |-> c, slept |-> slept, gate |-> gate]

\* The 401 branch of fetch_activities (lines 208-218): get_access_token() is
\* called without force_refresh.
FA_Unauthorized(c, tk) ==
    IF c.token_refresh_attempts >= MaxTokenRefreshAttempts
    THEN Return(c, ReturnEmptyList)
    ELSE IF ~tk.ok THEN Return(c, ReturnEmptyList)
    ELSE [c EXCEPT !.token = tk.token,
                   !.token_refresh_attempts = c.token_refresh_attempts + 1]

\* "if not self.check_rate_limits(response.headers): break"
FA_AfterGate(c) == Return(c, Result("list", c.activities))

AcceptPageSkipping(c, items) == [c EXCEPT !.page = c.page + 1]
\* "activities.extend(page_activities); page += 1"
AcceptPage(c, items) ==
    [c EXCEPT !.activities = c.activities \o items, !.page = c.page + 1]

\* The rest of an iteration of fetch_activities (lines 220-236).
FA_Handle(c, resp) ==
    IF resp.kind = "neterror"
    THEN Outcome(Return(c, Result("list", c.activities)), <<>>, "none")
    ELSE LET g == check_rate_limits(resp.headers, now % SecondsPerDay)
         IN  IF ~g.ok
             THEN Outcome(FA_AfterGate(c), g.slept, "wait")
             ELSE IF resp.status >= 400
             THEN Outcome(Return(c, Result("list", c.activities)), <<>>, "ok")
             ELSE IF resp.body.items = <<>>
             THEN Outcome(Return(c, Result("list", c.activities)), <<>>, "ok")
             ELSE Outcome(AcceptPage(c, resp.body.items), <<InterPageDelay>>, "ok")

\* One iteration of the while loop of fetch_activities.
FetchActivitiesIter ==
    /\ call.pc = "loop"
    /\ call.fn = "fetch_activities"
    /\ \E resp \in Responses(call) :
        /\ gets' = Append(gets, Request(call))
        /\ IF resp.kind = "response" /\ resp.status = 401
           THEN \E tk \in (IF call.token_refresh_attempts >= MaxTokenRefreshAttempts
                           THEN {NoTokenCall}
                           ELSE TokenOutcomes(FALSE)) :
                    /\ call' = FA_Unauthorized(call, tk)
                    /\ access_token' = tk.token
                    /\ token_expires_at' = tk.expires
                    /\ env_file' = IF tk.ok /\ tk.posted = 1
                                   THEN save_tokens_to_env(tk.token, tk.expires) ELSE env_file
                    /\ posts' = posts + tk.posted
                    /\ token_failures' = token_failures + tk.posted * (IF tk.ok THEN 0 ELSE 1)
                    /\ last_resp' = [kind |-> "response", status |-> 401, gate |-> "none"]
                    /\ UNCHANGED <<api_usage, now, sleeps, transient_failures>>
           ELSE LET o == FA_Handle(call, resp)
                IN  /\ call' = o.call
                    /\ sleeps' = sleeps \o o.slept
                    /\ now' = now + SumSeq(o.slept)
                    /\ api_usage' = IF resp.kind = "response"
                                    THEN UsageAfter(api_usage, resp.headers)
                                    ELSE api_usage
                    /\ last_resp' = [kind |-> resp.kind, status |-> resp.status,
                                     gate |-> o.gate]
                    /\ transient_failures' =
                           transient_failures + (IF Transient(resp) THEN 1 ELSE 0)
                    /\ UNCHANGED <<access_token, token_expires_at, env_file, posts, token_failures>>
    /\ UNCHANGED <<provider_pages, rateVars, thr, dbVars, saveVars, loadVars, segVars, jobVars,
                   tlVars, pmVars, usageVars>>

\* The list-format conversion of fetch_activity_stream (lines 542-581): the
\* channel -> series mapping (its time and watts entries) and has_power.
NoChannels ==
    [has_time |-> FALSE, time |-> <<>>, has_watts |-> FALSE, watts |-> <<>>,
     has_power |-> FALSE]
ZeroForNone(data) == [i \in 1..Len(data) |-> IF data[i] = NoneVal THEN 0 ELSE data[i]]
RECURSIVE ConvertStreams(_, _)
ConvertStreams(items, acc) ==
    IF items = <<>> THEN acc
    ELSE LET st == Head(items)
             valid_data == IF st.data # <<>> THEN ZeroForNone(st.data) ELSE <<>>
             acc1 == IF st.type = "time"
                     THEN [acc EXCEPT !.has_time = TRUE, !.time = valid_data]
                     ELSE IF st.type = "watts"
                     THEN [acc EXCEPT !.has_watts = TRUE, !.watts = valid_data,
                                      !.has_power = acc.has_power \/ valid_data # <<>>]
                     ELSE acc
         IN  ConvertStreams(Tail(items), acc1)
StreamResult(body) ==
    IF ~body.is_list THEN ReturnNone
    ELSE LET conv == ConvertStreams(body.items, NoChannels)
         IN  IF conv.has_power /\ conv.has_time /\ conv.has_watts
             THEN Result("streams", <<conv>>)
             ELSE ReturnNone

\* What a 200 response makes the call return.
OkResult(fn, body) ==
    IF fn = "fetch_activity_stream" THEN StreamResult(body)
    ELSE Result("list", body.items)
\* What the 401 branch returns when it gives up: [] in fetch_activity_stream,
\* None in get_segment_efforts.
AuthFailResult(fn) ==
    IF fn = "fetch_activity_stream" THEN ReturnEmptyList ELSE ReturnNone

\* The for loop "for attempt in range(max_retries)" moves on; when the range
\* is used up the function returns None (its last line).
NextAttempt(c) ==
    IF c.attempt + 1 < MaxRetries
    THEN [c EXCEPT !.attempt = c.attempt + 1]
    ELSE Return(c, ReturnNone)

\* the same handler without "retry_delay *= 2"
BackoffFlat(c) ==
    IF c.attempt < MaxRetries - 1
    THEN Outcome(NextAttempt(c), <<c.retry_delay>>, "ok")
    ELSE Outcome(Return(c, ReturnNone), <<>>, "ok")

\* "if attempt < max_retries - 1: time.sleep(retry_delay); retry_delay *= 2
\*  else: return None"
Backoff(c) ==
    IF c.attempt < MaxRetries - 1
    THEN Outcome(NextAttempt([c EXCEPT !.retry_delay = 2 * c.retry_delay]),
                 <<c.retry_delay>>, "ok")
    ELSE Outcome(Return(c, ReturnNone), <<>>, "ok")

\* The 429 branch: sleep X-RateLimit-Reset seconds (retry_delay when the header
\* is absent, is no integer or is negative), double retry_delay, go on.
TooManyRequests(c, reset) ==
    LET secs == IF reset.present /\ Len(reset.parts) = 1 /\ reset.parts[1].num
                   /\ reset.parts[1].val >= 0
                THEN reset.parts[1].val
                ELSE c.retry_delay
    IN  Outcome(NextAttempt([c EXCEPT !.retry_delay = 2 * c.retry_delay]),
                <<secs>>, "ok")

\* The 401 branch of fetch_activity_stream and get_segment_efforts:
\* get_access_token(force_refresh=True), then "continue".
RL_Unauthorized(c, tk) ==
    IF c.token_refresh_attempts >= MaxTokenRefreshAttempts
    THEN Return(c, AuthFailResult(c.fn))
    ELSE IF ~tk.ok THEN Return(c, AuthFailResult(c.fn))
    ELSE NextAttempt([c EXCEPT !.token = tk.token,
                               !.token_refresh_attempts = c.token_refresh_attempts + 1])

\* "if not self.check_rate_limits(response.headers): continue"
RL_AfterGate(c) == NextAttempt(c)

\* The rest of an iteration: the rate gate, raise_for_status and the handlers.
RL_Handle(c, resp) ==
    IF resp.kind = "neterror" THEN [Backoff(c) EXCEPT !.gate = "none"]
    ELSE LET g == check_rate_limits(resp.headers, now % SecondsPerDay)
         IN  IF ~g.ok THEN Outcome(RL_AfterGate(c), g.slept, "wait")
             ELSE IF resp.status = 429 THEN TooManyRequests(c, resp.headers.reset)
             ELSE IF resp.status = 404 THEN Outcome(Return(c, ReturnNone), <<>>, "ok")
             ELSE IF resp.status >= 400 THEN Backoff(c)
             ELSE Outcome(Return(c, OkResult(c.fn, resp.body)), <<>>, "ok")

\* One iteration of the for loop of fetch_activity_stream (fn =
\* "fetch_activity_stream") or of get_segment_efforts.
RetryIterOn(fn, responses) ==
    /\ call.pc = "loop"
    /\ call.fn = fn
    /\ \E resp \in responses :
        /\ gets' = Append(gets, Request(call))
        /\ IF resp.kind = "response" /\ resp.status = 401
           THEN \E tk \in (IF call.token_refresh_attempts >= MaxTokenRefreshAttempts
                           THEN {NoTokenCall}
                           ELSE TokenOutcomes(TRUE)) :
                    /\ call' = RL_Unauthorized(call, tk)
                    /\ access_token' = tk.token
                    /\ token_expires_at' = tk.expires
                    /\ env_file' = IF tk.ok /\ tk.posted = 1
                                   THEN save_tokens_to_env(tk.token, tk.expires) ELSE env_file
                    /\ posts' = posts + tk.posted
                    /\ token_failures' = token_failures + tk.posted * (IF tk.ok THEN 0 ELSE 1)
                    /\ last_resp' = [kind |-> "response", status |-> 401, gate |-> "none"]
                    /\ UNCHANGED <<api_usage, now, sleeps, transient_failures>>
           ELSE LET o == RL_Handle(call, resp)
                IN  /\ call' = o.call
                    /\ sleeps' = sleeps \o o.slept
                    /\ now' = now + SumSeq(o.slept)
                    /\ api_usage' = IF resp.kind = "response"
                                    THEN UsageAfter(api_usage, resp.headers)
                                    ELSE api_usage
                    /\ last_resp' = [kind |-> resp.kind, status |-> resp.status,
                                     gate |-> o.gate]
                    /\ transient_failures' =
                           transient_failures + (IF Transient(resp) THEN 1 ELSE 0)
                    /\ UNCHANGED <<access_token, token_expires_at, env_file, posts, token_failures>>
    /\ UNCHANGED <<provider_pages, rateVars, thr, dbVars, saveVars, loadVars, segVars, jobVars,
                   tlVars, pmVars, usageVars>>

RetryIter(fn) == RetryIterOn(fn, Responses(call))

FetchActivityStreamIter == RetryIter("fetch_activity_stream")
GetSegmentEffortsIter == RetryIter("get_segment_efforts")

(***************************************************************************)
(* SpecClient: one call of one of the three functions, with any cached     *)
(* token and any provider answers.                                         *)
(***************************************************************************)
\* the most non-empty pages the provider holds
MaxPages == 2
\* the activity ids and `after` values a call is made with
MaxArg == 1

\* The token fields a client can hold when a call starts: no token, a token
\* that is still valid, a token at the edge of the 60 s margin.
TokenStates ==
    {<<0, 0>>, <<1, TokenLifetime>>, <<1, TokenMargin>>}

InitClient ==
    /\ \E ts \in TokenStates : access_token = ts[1] /\ token_expires_at = ts[2]
    /\ env_file = <<access_token, token_expires_at>>
    /\ api_usage = <<0, 0>>
    /\ EnvInit
    /\ RateIdle
    /\ call = NoCall
    /\ provider_pages \in 0..MaxPages
    /\ last_resp = NoResp
    /\ transient_failures = 0
    /\ ThreadsIdle
    /\ DbEmpty
    /\ SaveIdle
    /\ LoaderIdle
    /\ SegmentsIdle
    /\ JobsIdle
    /\ TrainingIdle
    /\ PowerIdle
    /\ UsageIdle

CallFetchActivities ==
    /\ \E after \in 0..MaxArg : StartCall("fetch_activities", after)
    /\ UNCHANGED <<loader, seg_loader, jobVars, tlVars, pmVars, usageVars>>
CallFetchActivityStream ==
    /\ \E id \in 1..MaxArg : StartCall("fetch_activity_stream", id)
    /\ UNCHANGED <<loader, seg_loader, jobVars, tlVars, pmVars, usageVars>>
CallGetSegmentEfforts ==
    /\ \E id \in 1..MaxArg : StartCall("get_segment_efforts", id)
    /\ UNCHANGED <<loader, seg_loader, jobVars, tlVars, pmVars, usageVars>>

NextClient ==
    \/ CallFetchActivities
    \/ CallFetchActivityStream
    \/ CallGetSegmentEfforts
    \/ FetchActivitiesIter
    \/ FetchActivityStreamIter
    \/ GetSegmentEffortsIter

SpecClient == InitClient /\ [][NextClient]_vars

(***************************************************************************)
(* SpecRate: one call of check_rate_limits on any drawn headers.           *)
(***************************************************************************)
InitRate ==
    /\ DbEmpty
    /\ SaveIdle
    /\ LoaderIdle
    /\ SegmentsIdle
    /\ JobsIdle
    /\ TrainingIdle
    /\ PowerIdle
    /\ UsageIdle
    /\ ClientInit
    /\ EnvInit
    /\ CallIdle
    /\ ThreadsIdle
    /\ rl_headers \in AllHeaders
    /\ rl_clock \in Clocks
    /\ rl_result = "none"

CheckRateLimits ==
    /\ rl_result = "none"
    /\ LET r == check_rate_limits(rl_headers, rl_clock)
       IN  /\ rl_result' = IF r.ok THEN "ok" ELSE "wait"
           /\ sleeps' = sleeps \o r.slept
    /\ api_usage' = UsageAfter(api_usage, rl_headers)
    /\ UNCHANGED <<access_token, token_expires_at, env_file, now, posts, gets, token_failures,
                   rl_headers, rl_clock, callVars, thr, dbVars, saveVars, loadVars, segVars,
                   jobVars, tlVars, pmVars, usageVars>>

NextRate == CheckRateLimits

SpecRate == InitRate /\ [][NextRate]_vars

(***************************************************************************)
(* SpecToken: the jobs each call get_access_token once, in any interleaving.*)
(***************************************************************************)
InitToken ==
    /\ DbEmpty
    /\ SaveIdle
    /\ LoaderIdle
    /\ SegmentsIdle
    /\ JobsIdle
    /\ TrainingIdle
    /\ PowerIdle
    /\ UsageIdle
    /\ \E ts \in TokenStates : access_token = ts[1] /\ token_expires_at = ts[2]
    /\ env_file = <<access_token, token_expires_at>>
    /\ api_usage = <<0, 0>>
    /\ EnvInit
    /\ RateIdle
    /\ CallIdle
    /\ ThreadsIdle

GetAccessTokenCall == \E t \in Threads, force \in BOOLEAN : GAT_Call(t, force)
GetAccessTokenCheck == \E t \in Threads : GAT_Check(t)
GetAccessTokenPost == \E t \in Threads : GAT_Post(t)
GetAccessTokenStore == \E t \in Threads : GAT_Store(t)

NextToken ==
    \/ GetAccessTokenCall
    \/ GetAccessTokenCheck
    \/ GetAccessTokenPost
    \/ GetAccessTokenStore

SpecToken == InitToken /\ [][NextToken]_vars

\* C2 as stated: when two jobs call get_access_token (force_refresh=False)
\* and each finds the cached token missing, expired or within 60 s of expiry,
\* at most one refresh exchange is performed (no exchange having failed).
C2_Original ==
    (\A t \in Threads :
        thr[t].pc # "idle" /\ ~thr[t].force /\ thr[t].saw_stale /\ ~thr[t].failed)
    => posts <= 1

\* The cached token exists and its expiry exceeds now + 60 s.
CachedTokenValid == access_token # 0 /\ token_expires_at > now + 60

\* C16: get_access_token(force_refresh=False) with a cached token whose expiry
\* exceeds now + 60 s returns that token, sends nothing to the token endpoint
\* and leaves token, expiry and .env as they are; in every other case it sends
\* exactly one refresh exchange, and on success the token and expiry it
\* received replace the cached ones and are written to .env.
C16_TokenFrame ==
    [][\A t \in Threads :
          /\ (thr[t].pc = "check" /\ thr'[t].pc # "check") =>
                IF ~thr[t].force /\ CachedTokenValid
                THEN /\ thr'[t].pc = "done"
                     /\ thr'[t].result = access_token
                     /\ thr'[t].posted = 0
                     /\ posts' = posts
                     /\ <<access_token, token_expires_at, env_file>>' =
                           <<access_token, token_expires_at, env_file>>
                ELSE thr'[t].pc = "post" /\ posts' = posts
          /\ (thr[t].pc = "post" /\ thr'[t].pc # "post") =>
                /\ posts' = posts + 1
                /\ thr'[t].posted = 1
                /\ thr'[t].pc = "done" =>
                      /\ thr'[t].result = 0
                      /\ <<access_token, token_expires_at, env_file>>' =
                            <<access_token, token_expires_at, env_file>>
          /\ (thr[t].pc = "store" /\ thr'[t].pc # "store") =>
                /\ thr'[t].pc = "done"
                /\ thr'[t].posted = 1
                /\ posts' = posts
                /\ <<access_token', token_expires_at'>> = thr[t].token_data
                /\ access_token' # access_token
                /\ env_file' = thr[t].token_data
                /\ thr'[t].result = access_token']_vars

\* C16 witness: one job has returned the cached token without a request and
\* the other, forced to refresh, has stored and persisted a new token.
C16_Witness ==
    \E t, u \in Threads :
        /\ thr[t].pc = "done" /\ ~thr[t].force /\ thr[t].posted = 0 /\ thr[t].result # 0
        /\ thr[u].pc = "done" /\ thr[u].force /\ thr[u].posted = 1
        /\ thr[u].result = access_token
        /\ env_file = <<access_token, token_expires_at>>
        /\ access_token # thr[t].result

(***************************************************************************)
(* ActivityLoader.save_activities over table activities.  A row keeps the  *)
(* columns the loaders read: strava_id, whether start_date is before 2013, *)
(* moving_time, and the power columns normalized_power and best_10m_power  *)
(* (NoneVal is NULL).  An activity summary is its "id" and how its fields  *)
(* convert: "ok", "value" (a ValueError or TypeError in a conversion) or   *)
(* "key" (a KeyError: an absent key).                                      *)
(***************************************************************************)
Row(strava_id, old, moving_time) ==
    [strava_id |-> strava_id, old |-> old, moving_time |-> moving_time,
     normalized_power |-> NoneVal, best_10m_power |-> NoneVal, max_power |-> NoneVal]

RECURSIVE SeqToSet(_)
SeqToSet(q) == IF q = <<>> THEN {} ELSE {Head(q)} \cup SeqToSet(Tail(q))

\* "existing_ids = {a.strava_id for a in Activity.query....all()}"
ExistingIds(table) == {table[i].strava_id : i \in 1..Len(table)}

\* The loop over the batch (lines 79-116): new_activities and skipped_count, or
\* aborted when a KeyError leaves the loop for the outer handler.
RECURSIVE BuildNew(_, _, _)
BuildNew(acts, existing_ids, acc) ==
    IF acts = <<>> THEN acc
    ELSE LET act == Head(acts)
         IN  IF act.id \notin existing_ids
             THEN IF act.conv = "key" THEN [acc EXCEPT !.aborted = TRUE]
                  ELSE IF act.conv = "value"
                  THEN BuildNew(Tail(acts), existing_ids,
                                [acc EXCEPT !.skipped = acc.skipped + 1])
                  ELSE BuildNew(Tail(acts), existing_ids,
                                [acc EXCEPT !.new = Append(acc.new,
                                    Row(act.id, act.old, act.moving_time))])
             ELSE BuildNew(Tail(acts), existing_ids,
                           [acc EXCEPT !.skipped = acc.skipped + 1])

UniqueNotEnforced(table, new) == TRUE
\* Column strava_id is unique=True: the commit of the new rows fails with an
\* IntegrityError when two rows would share a strava_id.
UniqueOk(table, new) ==
    LET all == table \o new
    IN  \A i, j \in 1..Len(all) : all[i].strava_id = all[j].strava_id => i = j

\* save_activities(activities): the rows committed and what it returns.
save_activities(table, acts) ==
    IF acts = <<>> THEN [table |-> table, inserted |-> 0, skipped |-> 0, ret |-> FALSE]
    ELSE LET b == BuildNew(acts, ExistingIds(table),
                           [new |-> <<>>, skipped |-> 0, aborted |-> FALSE])
         IN  IF b.aborted
             THEN [table |-> table, inserted |-> 0, skipped |-> b.skipped, ret |-> FALSE]
             ELSE IF b.new = <<>>
             THEN [table |-> table, inserted |-> 0, skipped |-> b.skipped, ret |-> FALSE]
             ELSE IF ~UniqueOk(table, b.new)
             THEN [table |-> table, inserted |-> 0, skipped |-> b.skipped, ret |-> FALSE]
             ELSE [table |-> table \o b.new, inserted |-> Len(b.new),
                   skipped |-> b.skipped, ret |-> TRUE]

(***************************************************************************)
(* SpecSave: save_activities run again and again on one batch, from any    *)
(* table of rows with distinct ids.                                        *)
(***************************************************************************)
\* the provider activity ids are 1..MaxId
MaxId == 3
\* the longest batch
MaxBatch == 3
\* how often save_activities is run on the batch
MaxRuns == 2

Summaries ==
    [id : 1..MaxId, conv : {"ok", "value", "key"}, old : {FALSE}, moving_time : {3600}]
Batches == UNION {[1..n -> Summaries] : n \in 0..MaxBatch}
\* the tables of at most two rows with distinct ids
Tables ==
    {<<>>} \cup {<<Row(i, FALSE, 3600)>> : i \in 1..MaxId}
           \cup {<<Row(p[1], FALSE, 3600), Row(p[2], FALSE, 3600)>> :
                    p \in {q \in (1..MaxId) \X (1..MaxId) : q[1] # q[2]}}

InitSave ==
    /\ ClientInit
    /\ EnvInit
    /\ RateIdle
    /\ CallIdle
    /\ ThreadsIdle
    /\ db_activities \in Tables
    /\ batch \in Batches
    /\ save_runs = 0
    /\ save_last = NoSave
    /\ after_first_save = <<>>
    /\ LoaderIdle
    /\ SegmentsIdle
    /\ JobsIdle
    /\ TrainingIdle
    /\ PowerIdle
    /\ UsageIdle

SaveActivities ==
    /\ save_runs < MaxRuns
    /\ LET r == save_activities(db_activities, batch)
       IN  /\ db_activities' = r.table
           /\ save_last' = [inserted |-> r.inserted, skipped |-> r.skipped, ret |-> r.ret]
           /\ after_first_save' = IF save_runs = 0 THEN r.table ELSE after_first_save
    /\ save_runs' = save_runs + 1
    /\ UNCHANGED <<clientFields, envVars, rateVars, callVars, thr, batch, loadVars, segVars,
                   jobVars, tlVars, pmVars, usageVars>>

NextSave == SaveActivities

SpecSave == InitSave /\ [][NextSave]_vars

\* C1: running save_activities(P) a second time inserts nothing and leaves
\* the persisted rows as the first run left them, and no two persisted rows
\* ever share a provider activity id.
C1_Idempotent ==
    /\ \A i, j \in 1..Len(db_activities) :
          db_activities[i].strava_id = db_activities[j].strava_id => i = j
    /\ save_runs >= 2 =>
          /\ save_last.inserted = 0
          /\ db_activities = after_first_save

\* The records of the batch that convert, with an id no other record has.
ConvertibleRecords ==
    {i \in 1..Len(batch) :
        /\ batch[i].conv = "ok"
        /\ \A j \in 1..Len(batch) : batch[j].id = batch[i].id => j = i}
Malformed(act) == act.conv \in {"value", "key"}

\* C15: when a batch holds a record with a malformed or incomplete field (a
\* value that does not convert, or an absent key), save_activities skips that
\* record and every other new record of the batch is persisted.
C15_Original ==
    (save_runs >= 1 /\ \E i \in 1..Len(batch) : Malformed(batch[i]))
    => \A i \in ConvertibleRecords : batch[i].id \in ExistingIds(db_activities)

\* C1 witness: the first run inserted rows for new ids and the second run on
\* the same batch has returned.
C1_Witness ==
    /\ save_runs = 2
    /\ Len(db_activities) >= 3
    /\ Len(batch) >= 2
    /\ \E i \in 1..Len(batch) :
          batch[i].conv = "ok"
          /\ \E k \in 1..Len(db_activities) : db_activities[k].strava_id = batch[i].id

(***************************************************************************)
(* StreamLoader.load_missing_streams.  The session holds the rows the      *)
(* query loaded; commit makes them the committed rows, rollback drops the  *)
(* uncommitted changes.  loader.updated (the candidates counted in         *)
(* updated_count) and loader.rolled_back (the candidates whose uncommitted *)
(* metrics a rollback dropped) record what the run did.                    *)
(***************************************************************************)
\* a commit every 10 updated activities instead
CommitEveryTen == 5 + 5
\* "if updated_count % 5 == 0: db.session.commit()"
CommitEvery == 5

NeedsStreamsAlways(row) == TRUE
\* The filter of the candidate query (lines 48-56).
NeedsStreams(row) ==
    \/ row.normalized_power = NoneVal
    \/ (row.best_10m_power = NoneVal /\ row.moving_time > 0)

RECURSIVE MatchingFrom(_, _)
MatchingFrom(table, i) ==
    IF i > Len(table) THEN <<>>
    ELSE (IF NeedsStreams(table[i]) THEN <<i>> ELSE <<>>) \o MatchingFrom(table, i + 1)

\* "if limit > 0: query = query.limit(limit)"; "activities = query.all()"
Candidates(table, limit) ==
    LET all == MatchingFrom(table, 1)
    IN  IF limit > 0 /\ limit < Len(all) THEN SubSeq(all, 1, limit) ELSE all

RECURSIVE MaxOf(_)
MaxOf(q) ==
    IF Len(q) = 1 THEN q[1]
    ELSE LET m == MaxOf(Tail(q)) IN IF Head(q) > m THEN Head(q) ELSE m

\* PowerCalculator.calculate_power_intervals for series shorter than 30
\* points, as the series of this model are: no best-interval window and no
\* 30 s average fits, so every best-interval power and normalized_power is 0
\* and max_power is the largest valid sample.  ok = FALSE is "return None".
NoMetrics == [ok |-> FALSE, best_10m_power |-> 0, max_power |-> 0, normalized_power |-> 0]
calculate_power_intervals(stream_data) ==
    IF ~stream_data.has_watts \/ ~stream_data.has_time THEN NoMetrics
    ELSE IF Len(stream_data.watts) # Len(stream_data.time) THEN NoMetrics
    ELSE LET valid_data == SelectSeq(stream_data.watts, LAMBDA w : w >= 0)
         IN  IF valid_data = <<>> THEN NoMetrics
             ELSE [ok |-> TRUE, best_10m_power |-> 0, max_power |-> MaxOf(valid_data),
                   normalized_power |-> 0]

\* _update_activity_power_metrics: the power columns of the row.
update_activity_power_metrics(row, power_metrics) ==
    [row EXCEPT !.best_10m_power = power_metrics.best_10m_power,
                !.max_power = power_metrics.max_power,
                !.normalized_power = power_metrics.normalized_power]

\* The rows of the session that differ from the committed ones.
Dirty(sess, db) == {i \in 1..Len(db) : sess[i] # db[i]}

Step(ld, sess, db, slept) == [loader |-> ld, session |-> sess, db |-> db, slept |-> slept]

\* "except Exception: error_count += 1; db.session.rollback()"
Failed(ld, sess, db) ==
    Step([ld EXCEPT !.error_count = ld.error_count + 1,
                    !.rolled_back = ld.rolled_back \cup Dirty(sess, db)],
         db, db, <<>>)

\* The body of the loop after fetch_activity_stream returned stream_data
\* (lines 102-131).  update_raises: _update_activity_power_metrics raises;
\* commit_raises: db.session.commit() raises.
AfterFetch(ld, sess, db, stream_data, update_raises, commit_raises) ==
    LET pk == ld.activities[ld.idx]
        nxt == [ld EXCEPT !.idx = ld.idx + 1]
    IN  IF Falsy(stream_data) \/ stream_data.kind # "streams"
        THEN Step([nxt EXCEPT !.error_count = ld.error_count + 1], sess, db, <<>>)
        ELSE LET sd == stream_data.items[1]
                 power_metrics == calculate_power_intervals(sd)
             IN  IF ~sd.has_watts \/ sd.watts = <<>>
                 THEN Step([nxt EXCEPT !.skipped_count = ld.skipped_count + 1],
                           sess, db, <<>>)
                 ELSE IF ~power_metrics.ok
                 THEN Step([nxt EXCEPT !.error_count = ld.error_count + 1], sess, db, <<>>)
                 ELSE IF update_raises THEN Failed(nxt, sess, db)
                 ELSE LET sess1 == [sess EXCEPT ![pk] =
                                      update_activity_power_metrics(sess[pk], power_metrics)]
                          ld1 == [nxt EXCEPT !.updated_count = ld.updated_count + 1,
                                             !.updated = ld.updated \cup {pk}]
                      IN  IF ld1.updated_count % CommitEvery = 0
                          THEN IF commit_raises THEN Failed(ld1, sess1, db)
                               ELSE Step(ld1, sess1, sess1, <<1>>)
                          ELSE Step(ld1, sess1, db, <<1>>)

NoFinalCommit(ld) == FALSE
\* "if updated_count % 5 != 0 and updated_count > 0: db.session.commit()"
NeedsFinalCommit(ld) == ld.updated_count % CommitEvery # 0 /\ ld.updated_count > 0

\* The end of the run (lines 140-154).
Finish(ld, sess, db, commit_raises) ==
    IF NeedsFinalCommit(ld)
    THEN IF commit_raises
         THEN Step([ld EXCEPT !.pc = "done", !.ret = FALSE,
                              !.rolled_back = ld.rolled_back \cup Dirty(sess, db)],
                   db, db, <<>>)
         ELSE Step([ld EXCEPT !.pc = "done", !.ret = ld.updated_count > 0],
                   sess, sess, <<>>)
    ELSE Step([ld EXCEPT !.pc = "done", !.ret = ld.updated_count > 0], sess, db, <<>>)

\* load_missing_streams(limit) up to the loop: the candidate query.
LMS_Start(limit) ==
    /\ loader.pc \in {"idle", "done"}
    /\ LET activities == Candidates(db_activities, limit)
           fresh == [NoLoader EXCEPT !.runs = loader.runs + 1]
       IN  loader' = IF activities = <<>>
                     THEN [fresh EXCEPT !.pc = "done", !.ret = FALSE]
                     ELSE [fresh EXCEPT !.pc = "next", !.activities = activities,
                                        !.idx = 1]
    /\ session' = db_activities
    /\ UNCHANGED <<clientFields, envVars, rateVars, callVars, thr, dbVars, saveVars, segVars,
                   jobVars, tlVars, pmVars, usageVars>>

\* "if act.start_date.year < 2013: skipped_count += 1; continue"
LMS_Skip ==
    /\ loader.pc = "next"
    /\ loader.idx <= Len(loader.activities)
    /\ session[loader.activities[loader.idx]].old
    /\ loader' = [loader EXCEPT !.idx = loader.idx + 1,
                                !.skipped_count = loader.skipped_count + 1]
    /\ UNCHANGED <<clientFields, envVars, rateVars, callVars, thr, dbVars, saveVars, session,
                   segVars, jobVars, tlVars, pmVars, usageVars>>

\* "stream_data = self.strava_client.fetch_activity_stream(act.strava_id)":
\* the call is entered.
LMS_Fetch ==
    /\ loader.pc = "next"
    /\ loader.idx <= Len(loader.activities)
    /\ ~session[loader.activities[loader.idx]].old
    /\ StartCall("fetch_activity_stream", session[loader.activities[loader.idx]].strava_id)
    /\ loader' = [loader EXCEPT !.pc = "fetched"]
    /\ UNCHANGED seg_loader

\* The call has returned: the rest of the loop body.
LMS_Handle ==
    /\ loader.pc = "fetched"
    /\ call.pc = "done"
    /\ \E update_raises \in BOOLEAN, commit_raises \in BOOLEAN :
        LET r == AfterFetch(loader, session, db_activities, call.result,
                            update_raises, commit_raises)
        IN  /\ loader' = [r.loader EXCEPT !.pc = "next"]
            /\ session' = r.session
            /\ db_activities' = r.db
            /\ sleeps' = sleeps \o r.slept
            /\ now' = now + SumSeq(r.slept)
    /\ call' = NoCall
    /\ UNCHANGED <<clientFields, posts, gets, token_failures, rateVars, provider_pages,
                   last_resp, transient_failures, thr, saveVars, segVars, jobVars, tlVars, pmVars,
                   usageVars>>

\* The loop is over: the last commit and the return value.
LMS_Finish ==
    /\ loader.pc = "next"
    /\ loader.idx > Len(loader.activities)
    /\ \E commit_raises \in BOOLEAN :
        LET r == Finish(loader, session, db_activities, commit_raises)
        IN  /\ loader' = r.loader
            /\ session' = r.session
            /\ db_activities' = r.db
    /\ UNCHANGED <<clientFields, envVars, rateVars, callVars, thr, saveVars, segVars, jobVars,
                   tlVars, pmVars, usageVars>>

(***************************************************************************)
(* SpecStream: one run of load_missing_streams over a table of activities, *)
(* with a provider that answers a stream request with a stream list, with  *)
(* a body that is no list, or not at all, and a token endpoint that can    *)
(* fail.                                                                   *)
(***************************************************************************)
\* the most rows of table activities
MaxActivities == 6
\* the largest `limit` argument
MaxLimit == 1

StreamTables ==
    {[i \in 1..n |->
        IF i \in have THEN [Row(i, FALSE, 3600) EXCEPT !.normalized_power = 0,
                                                       !.best_10m_power = 0,
                                                       !.max_power = 200]
        ELSE Row(i, i \in old, 3600)] :
      n \in 0..MaxActivities, have \in {{}, {1}}, old \in {{}, {2}}}

QuietHeaders ==
    [usage |-> Pair(10, 10), limit |-> Pair(100, 1000), read_usage |-> NoHdr,
     read_limit |-> NoHdr, reset |-> NoHdr]
LoaderResponses ==
    {[kind |-> "neterror", status |-> 0,
      headers |-> [usage |-> NoHdr, limit |-> NoHdr, read_usage |-> NoHdr,
                   read_limit |-> NoHdr, reset |-> NoHdr],
      body |-> NoBody],
     [kind |-> "response", status |-> 200, headers |-> QuietHeaders,
      body |-> [is_list |-> FALSE, items |-> <<>>]],
     [kind |-> "response", status |-> 200, headers |-> QuietHeaders,
      body |-> [is_list |-> TRUE,
                items |-> <<Stream("time", <<0, 1>>), Stream("watts", <<100, 200>>)>>]]}

InitStream ==
    /\ \E ts \in {<<0, 0>>, <<1, TokenLifetime>>} :
          access_token = ts[1] /\ token_expires_at = ts[2]
    /\ env_file = <<access_token, token_expires_at>>
    /\ api_usage = <<0, 0>>
    /\ EnvInit
    /\ RateIdle
    /\ CallIdle
    /\ ThreadsIdle
    /\ db_activities \in StreamTables
    /\ SaveIdle
    /\ LoaderIdle
    /\ SegmentsIdle
    /\ JobsIdle
    /\ TrainingIdle
    /\ PowerIdle
    /\ UsageIdle

LoadMissingStreams ==
    /\ loader.runs = 0
    /\ \E limit \in 0..MaxLimit : LMS_Start(limit)
LoaderFetchIter == RetryIterOn("fetch_activity_stream", LoaderResponses)

NextStream ==
    \/ LoadMissingStreams
    \/ LMS_Skip
    \/ LMS_Fetch
    \/ LoaderFetchIter
    \/ LMS_Handle
    \/ LMS_Finish

SpecStream == InitStream /\ [][NextStream]_vars

\* C28: at every point during load_missing_streams at most 5 activities have
\* power metrics that were updated but not yet committed, and none has when
\* the count of updated activities is a multiple of 5.
C28_CommitWindow ==
    loader.runs > 0 =>
        /\ Cardinality(Dirty(session, db_activities)) <= 5
        /\ loader.updated_count % 5 = 0 => Dirty(session, db_activities) = {}

\* four activities updated and none of them committed yet
C28_Witness ==
    /\ loader.runs > 0
    /\ loader.pc = "next"
    /\ loader.updated_count = 4
    /\ Cardinality(Dirty(session, db_activities)) = 4

(***************************************************************************)
(* SpecStreamKinds: one run of load_missing_streams with a provider that   *)
(* answers every stream request 200, with streams of every kind: power     *)
(* samples present, all missing, all zero, partly missing, fewer than the  *)
(* time samples, empty, no watts channel, no time channel, no list.        *)
(***************************************************************************)
\* the most rows of table activities
MaxKindActivities == 3

StreamKinds ==
    {[is_list |-> FALSE, items |-> <<>>],
     [is_list |-> TRUE, items |-> <<Stream("time", <<0, 1>>), Stream("watts", <<100, 200>>)>>],
     [is_list |-> TRUE, items |-> <<Stream("time", <<0, 1>>), Stream("watts", <<NoneVal, 150>>)>>],
     [is_list |-> TRUE, items |-> <<Stream("time", <<0, 1>>), Stream("watts", <<NoneVal, NoneVal>>)>>],
     [is_list |-> TRUE, items |-> <<Stream("time", <<0, 1>>), Stream("watts", <<0, 0>>)>>],
     [is_list |-> TRUE, items |-> <<Stream("time", <<0, 1>>), Stream("watts", <<100>>)>>],
     [is_list |-> TRUE, items |-> <<Stream("time", <<0, 1>>), Stream("watts", <<>>)>>],
     [is_list |-> TRUE, items |-> <<Stream("time", <<0, 1>>)>>],
     [is_list |-> TRUE, items |-> <<Stream("watts", <<100, 200>>)>>]}
KindResponses ==
    {[kind |-> "response", status |-> 200, headers |-> QuietHeaders, body |-> b] :
        b \in StreamKinds}

InitStreamKinds ==
    /\ access_token = 1
    /\ token_expires_at = TokenLifetime
    /\ env_file = <<access_token, token_expires_at>>
    /\ api_usage = <<0, 0>>
    /\ EnvInit
    /\ RateIdle
    /\ CallIdle
    /\ ThreadsIdle
    /\ \E n \in 1..MaxKindActivities, old \in {{}, {2}} :
          db_activities = [i \in 1..n |-> Row(i, i \in old, 3600)]
    /\ SaveIdle
    /\ LoaderIdle
    /\ SegmentsIdle
    /\ JobsIdle
    /\ TrainingIdle
    /\ PowerIdle
    /\ UsageIdle

LoadMissingStreamsOnce ==
    /\ loader.runs = 0
    /\ LMS_Start(0)
KindFetchIter == RetryIterOn("fetch_activity_stream", KindResponses)

NextStreamKinds ==
    \/ LoadMissingStreamsOnce
    \/ LMS_Skip
    \/ LMS_Fetch
    \/ KindFetchIter
    \/ LMS_Handle
    \/ LMS_Finish

SpecStreamKinds == InitStreamKinds /\ [][NextStreamKinds]_vars

\* The stream fetch_activity_stream has returned has time and watts channels
\* of equal length and a power sample that is not 0 (a missing sample has
\* been replaced by 0 at that point).
HasRealPower(result) ==
    /\ result.kind = "streams"
    /\ LET sd == result.items[1]
       IN  /\ sd.has_time
           /\ sd.has_watts
           /\ Len(sd.time) = Len(sd.watts)
           /\ \E i \in 1..Len(sd.watts) : sd.watts[i] # 0

\* C27: load_missing_streams writes power metrics to an activity only if the
\* fetched stream has time and watts channels of equal length and a watts
\* sample that is neither missing nor zero; a stream whose samples are all
\* missing or all zero is rejected and nothing is written (as claimed).
C27_Original ==
    [][(loader.pc = "fetched" /\ call.pc = "done" /\ session' # session)
          => HasRealPower(call.result)]_vars

(***************************************************************************)
(* SegmentLoader.load_missing_segments.  An effort the provider returns is *)
(* named by a number, which is also the strava_id of its segment.  A row   *)
(* of segment_efforts is [activity, effort]: the activity's primary key    *)
(* and the effort it was made from.  The activities are taken in primary   *)
(* key order, the order of their start dates.  In seg_loader, inserted     *)
(* (the efforts inserted for the activity being processed), skipped (the   *)
(* activities that were skipped because they had efforts) and errors (the  *)
(* efforts that raised) record what the run did.                           *)
(***************************************************************************)
EffortRow(pk, effort) == [activity |-> pk, effort |-> effort]
SegmentOf(effort) == effort

NoExistingEffort(efforts, pk) == FALSE
\* "existing_effort = db.session.query(SegmentEffort).filter_by(
\*  activity_id=activity.id).first()"
ExistingEffort(efforts, pk) == \E e \in efforts : e.activity = pk

\* "query.order_by(Activity.start_date.asc())", "if limit > 0: query.limit(limit)"
SegmentActivities(table, limit) ==
    LET all == [i \in 1..Len(table) |-> i]
    IN  IF limit > 0 /\ limit < Len(all) THEN SubSeq(all, 1, limit) ELSE all

\* _process_segment_effort(activity, effort): the rows committed.  outcome is
\* "ok", "bad_segment" (effort['segment'] or one of its keys is absent: the
\* KeyError comes before anything is added) or "bad_date" (strptime raises
\* after the new segment was committed).
process_segment_effort(segments, efforts, pk, effort, outcome) ==
    IF outcome = "bad_segment"
    THEN [segments |-> segments, efforts |-> efforts, raised |-> TRUE]
    ELSE IF outcome = "bad_date"
    THEN [segments |-> segments \cup {SegmentOf(effort)}, efforts |-> efforts,
          raised |-> TRUE]
    ELSE [segments |-> segments \cup {SegmentOf(effort)},
          efforts |-> efforts \cup {EffortRow(pk, effort)}, raised |-> FALSE]

\* how often load_missing_segments is run
MaxSegRuns == 2
\* load_missing_segments(limit) up to the loop.  runs counts the runs up to
\* MaxSegRuns.
SEG_Begin(limit) ==
    /\ seg_loader.pc \in {"idle", "done"}
    /\ LET activities == SegmentActivities(db_activities, limit)
           fresh == [NoSegLoader EXCEPT
                        !.runs = IF seg_loader.runs < MaxSegRuns THEN seg_loader.runs + 1
                                 ELSE seg_loader.runs,
                        !.limit = limit]
       IN  seg_loader' = IF activities = <<>>
                         THEN [fresh EXCEPT !.pc = "done", !.ret = FALSE]
                         ELSE [fresh EXCEPT !.pc = "next", !.activities = activities,
                                            !.idx = 1]
SEG_Start(limit) ==
    /\ SEG_Begin(limit)
    /\ UNCHANGED <<clientFields, envVars, rateVars, callVars, thr, dbVars, saveVars,
                   loadVars, db_segments, db_efforts, jobVars, tlVars, pmVars, usageVars>>

\* _process_activity_segments: "if existing_effort: return True"
SEG_Skip ==
    /\ seg_loader.pc = "next"
    /\ seg_loader.idx <= Len(seg_loader.activities)
    /\ ExistingEffort(db_efforts, seg_loader.activities[seg_loader.idx])
    /\ seg_loader' = [seg_loader EXCEPT
                        !.idx = seg_loader.idx + 1,
                        !.loaded = TRUE,
                        !.skipped = seg_loader.skipped
                                       \cup {seg_loader.activities[seg_loader.idx]}]
    /\ UNCHANGED <<clientFields, envVars, rateVars, callVars, thr, dbVars, saveVars,
                   loadVars, db_segments, db_efforts, jobVars, tlVars, pmVars, usageVars>>

\* "segment_efforts = self.strava_client.get_segment_efforts(activity.strava_id)":
\* the call is entered.
SEG_Fetch ==
    /\ seg_loader.pc = "next"
    /\ seg_loader.idx <= Len(seg_loader.activities)
    /\ ~ExistingEffort(db_efforts, seg_loader.activities[seg_loader.idx])
    /\ StartCall("get_segment_efforts",
                 db_activities[seg_loader.activities[seg_loader.idx]].strava_id)
    /\ seg_loader' = [seg_loader EXCEPT !.pc = "fetched", !.inserted = {}]
    /\ UNCHANGED loader

\* The call has returned: "if not segment_efforts: return False", else the
\* loop over the efforts starts.
SEG_Receive ==
    /\ seg_loader.pc = "fetched"
    /\ call.pc = "done"
    /\ seg_loader' = IF Falsy(call.result)
                     THEN [seg_loader EXCEPT !.pc = "next", !.idx = seg_loader.idx + 1]
                     ELSE [seg_loader EXCEPT !.pc = "efforts",
                                             !.efforts = call.result.items, !.eidx = 1]
    /\ call' = NoCall
    /\ UNCHANGED <<clientFields, envVars, rateVars, provider_pages, last_resp,
                   transient_failures, thr, dbVars, saveVars, loadVars, db_segments,
                   db_efforts, jobVars, tlVars, pmVars, usageVars>>

\* One iteration of "for effort in segment_efforts" (lines 103-109); after
\* the last one _process_activity_segments returns True.
SEG_EffortWith(outcomes) ==
    /\ seg_loader.pc = "efforts"
    /\ \E outcome \in outcomes :
        LET pk == seg_loader.activities[seg_loader.idx]
            effort == seg_loader.efforts[seg_loader.eidx]
            r == process_segment_effort(db_segments, db_efforts, pk, effort, outcome)
            last == seg_loader.eidx = Len(seg_loader.efforts)
        IN  /\ db_segments' = r.segments
            /\ db_efforts' = r.efforts
            /\ seg_loader' =
                 [seg_loader EXCEPT
                    !.eidx = seg_loader.eidx + 1,
                    !.errors = seg_loader.errors + (IF r.raised THEN 1 ELSE 0),
                    !.inserted = seg_loader.inserted
                                    \cup (IF r.raised THEN {} ELSE {effort}),
                    !.pc = IF last THEN "next" ELSE "efforts",
                    !.idx = IF last THEN seg_loader.idx + 1 ELSE seg_loader.idx,
                    !.loaded = IF last THEN TRUE ELSE seg_loader.loaded]
    /\ UNCHANGED <<clientFields, envVars, rateVars, callVars, thr, dbVars, saveVars,
                   loadVars, jobVars, tlVars, pmVars, usageVars>>

SEG_Effort == SEG_EffortWith({"ok", "bad_segment", "bad_date"})

\* "return loaded"
SEG_Finish ==
    /\ seg_loader.pc = "next"
    /\ seg_loader.idx > Len(seg_loader.activities)
    /\ seg_loader' = [seg_loader EXCEPT !.pc = "done", !.ret = seg_loader.loaded]
    /\ UNCHANGED <<clientFields, envVars, rateVars, callVars, thr, dbVars, saveVars,
                   loadVars, db_segments, db_efforts, jobVars, tlVars, pmVars, usageVars>>

\* The process running the job dies: its locals are gone, the committed rows
\* stay.
SEG_Crash ==
    /\ seg_loader.pc \notin {"idle", "done"}
    /\ seg_loader' = [NoSegLoader EXCEPT !.runs = seg_loader.runs]
    /\ call' = NoCall
    /\ UNCHANGED <<clientFields, envVars, rateVars, provider_pages, last_resp,
                   transient_failures, thr, dbVars, saveVars, loadVars, db_segments,
                   db_efforts, jobVars, tlVars, pmVars, usageVars>>

(***************************************************************************)
(* SpecSegments: runs of load_missing_segments, one after the other, any   *)
(* of which can crash, over a table of activities that have no efforts     *)
(* yet.  The provider returns the efforts 1 and 2 for an activity, or an   *)
(* empty list, or nothing.                                                 *)
(***************************************************************************)
\* the most rows of table activities
MaxSegActivities == 2

SegmentResponses ==
    {[kind |-> "neterror", status |-> 0,
      headers |-> [usage |-> NoHdr, limit |-> NoHdr, read_usage |-> NoHdr,
                   read_limit |-> NoHdr, reset |-> NoHdr],
      body |-> NoBody]}
    \cup {[kind |-> "response", status |-> 200, headers |-> QuietHeaders, body |-> b] :
            b \in EffortBodies}

InitSegments ==
    /\ access_token = 1
    /\ token_expires_at = TokenLifetime
    /\ env_file = <<access_token, token_expires_at>>
    /\ api_usage = <<0, 0>>
    /\ EnvInit
    /\ RateIdle
    /\ CallIdle
    /\ ThreadsIdle
    /\ \E n \in 0..MaxSegActivities : db_activities = [i \in 1..n |-> Row(i, FALSE, 3600)]
    /\ SaveIdle
    /\ LoaderIdle
    /\ SegmentsIdle
    /\ JobsIdle
    /\ TrainingIdle
    /\ PowerIdle
    /\ UsageIdle

LoadMissingSegments ==
    /\ seg_loader.runs < MaxSegRuns
    /\ \E limit \in 0..MaxLimit : SEG_Start(limit)
SegmentsFetchIter == RetryIterOn("get_segment_efforts", SegmentResponses)

NextSegments ==
    \/ LoadMissingSegments
    \/ SEG_Skip
    \/ SEG_Fetch
    \/ SegmentsFetchIter
    \/ SEG_Receive
    \/ SEG_Effort
    \/ SEG_Finish
    \/ SEG_Crash

SpecSegments == InitSegments /\ [][NextSegments]_vars

(***************************************************************************)
(* SpecSegmentsRepeated: load_missing_segments run again and again with    *)
(* the same positive limit, in the most favourable surroundings: no run    *)
(* crashes, every request is answered 200 with a non-empty list of         *)
(* efforts, and every effort is stored.  A run that is due is eventually   *)
(* made and a run in progress eventually takes its next step.  The log of  *)
(* requests is kept per run.                                               *)
(***************************************************************************)
\* the most rows of table activities, and the largest limit
MaxRepeatedActivities == 3
MaxRepeatedLimit == 2

EffortfulResponses ==
    {[kind |-> "response", status |-> 200, headers |-> QuietHeaders,
      body |-> [is_list |-> TRUE, items |-> items]] :
        items \in {<<1>>, <<2>>, <<1, 2>>}}

InitSegmentsRepeated ==
    /\ access_token = 1
    /\ token_expires_at = TokenLifetime
    /\ env_file = <<access_token, token_expires_at>>
    /\ api_usage = <<0, 0>>
    /\ EnvInit
    /\ RateIdle
    /\ CallIdle
    /\ ThreadsIdle
    /\ \E n \in 0..MaxRepeatedActivities :
          db_activities = [i \in 1..n |-> Row(i, FALSE, 3600)]
    /\ SaveIdle
    /\ LoaderIdle
    /\ SegmentsIdle
    /\ JobsIdle
    /\ TrainingIdle
    /\ PowerIdle
    /\ UsageIdle

LoadMissingSegmentsAgain ==
    /\ \E limit \in 1..MaxRepeatedLimit :
          /\ seg_loader.runs = 0 \/ limit = seg_loader.limit
          /\ SEG_Begin(limit)
    /\ gets' = <<>>
    /\ UNCHANGED <<clientFields, now, posts, sleeps, token_failures, rateVars, callVars, thr,
                   dbVars, saveVars, loadVars, db_segments, db_efforts, jobVars, tlVars,
                   pmVars, usageVars>>
EffortfulFetchIter == RetryIterOn("get_segment_efforts", EffortfulResponses)
SEG_EffortStored == SEG_EffortWith({"ok"})

NextSegmentsRepeated ==
    \/ LoadMissingSegmentsAgain
    \/ SEG_Skip
    \/ SEG_Fetch
    \/ EffortfulFetchIter
    \/ SEG_Receive
    \/ SEG_EffortStored
    \/ SEG_Finish

SpecSegmentsRepeated ==
    InitSegmentsRepeated /\ [][NextSegmentsRepeated]_vars /\ WF_vars(NextSegmentsRepeated)

\* C23: repeated runs of load_missing_segments with a positive limit
\* eventually load segment efforts for every activity that has efforts at the
\* provider (the statement as claimed: every activity ends up with efforts).
C23_Original ==
    <>(\A pk \in 1..Len(db_activities) : ExistingEffort(db_efforts, pk))

(***************************************************************************)
(* Properties of load_missing_segments, checked under SpecSegments.        *)
(***************************************************************************)
EffortsOf(pk) == {e.effort : e \in {r \in db_efforts : r.activity = pk}}
ProviderEfforts == {1, 2}

\* C11 as stated: after a run that crashed or met an error on an effort,
\* having persisted some but not all efforts of an activity, a rerun
\* completes the work: once a rerun has ended without error, every activity
\* it covered that has an effort persisted has all the efforts the provider
\* returns for it.
C11_Original ==
    (seg_loader.pc = "done" /\ seg_loader.runs >= 2 /\ seg_loader.errors = 0)
    => \A i \in 1..Len(seg_loader.activities) :
          LET pk == seg_loader.activities[i]
          IN  EffortsOf(pk) # {} => EffortsOf(pk) = ProviderEfforts

CurrentSegActivity == seg_loader.activities[seg_loader.idx]

\* C13: load_missing_segments sends a GET only for an activity that has no
\* persisted effort, and inserts Segment and SegmentEffort rows only while
\* it works through the efforts fetched for such an activity (all the
\* efforts that activity has were inserted in this very pass over it); an
\* activity that already had an effort when the run reached it is skipped
\* with no request and no insert.
C13_Sentinel ==
    [][/\ Len(gets') > Len(gets) =>
            /\ seg_loader.pc = "fetched"
            /\ EffortsOf(CurrentSegActivity) = {}
            /\ gets'[Len(gets')].arg = db_activities[CurrentSegActivity].strava_id
       /\ (db_efforts' # db_efforts \/ db_segments' # db_segments) =>
            /\ seg_loader.pc = "efforts"
            /\ EffortsOf(CurrentSegActivity) = seg_loader.inserted
            /\ \A r \in db_efforts' \ db_efforts : r.activity = CurrentSegActivity
       /\ (seg_loader.pc = "next" /\ seg_loader.idx <= Len(seg_loader.activities)
           /\ EffortsOf(CurrentSegActivity) # {} /\ seg_loader'.pc # "idle") =>
            /\ seg_loader'.pc = "next"
            /\ seg_loader'.idx = seg_loader.idx + 1
            /\ UNCHANGED <<gets, posts, db_efforts, db_segments>>]_vars

\* C13 witness: a second run has ended in which an activity whose efforts an
\* earlier run had persisted was skipped, while another activity was fetched.
C13_Witness ==
    /\ seg_loader.pc = "done"
    /\ seg_loader.runs = 2
    /\ 1 \in seg_loader.skipped
    /\ EffortsOf(1) # {}
    /\ EffortsOf(2) = ProviderEfforts
    /\ 2 \notin seg_loader.skipped

(***************************************************************************)
(* Job tracking: start_job, end_job, get_job_status.  A job is tracked by  *)
(* a row of table jobs and by an entry of self._jobs.  A database          *)
(* operation can raise; the handlers then fall back to self._jobs.         *)
(***************************************************************************)
Running == [status |-> "running", success |-> "None"]
Completed(success) == [status |-> "completed", success |-> success]

\* start_job(job_type) at second t: the row is added and committed unless
\* the database raises (db_ok = FALSE), as it does when a row with this id
\* exists; the entry of self._jobs is written in both branches.
start_job(db, mem, id, db_ok) ==
    [db |-> IF db_ok /\ db[id] = NoJob THEN [db EXCEPT ![id] = Running] ELSE db,
     mem |-> [mem EXCEPT ![id] = Running]]

\* end_job(job_id, success): the row, when there is one, is set to completed
\* and committed unless the database raises; the entry of self._jobs, when
\* there is one, is set to completed in both branches.
end_job(db, mem, id, success, db_ok) ==
    [db |-> IF db_ok /\ db[id] # NoJob THEN [db EXCEPT ![id] = Completed(success)]
            ELSE db,
     mem |-> IF mem[id] # NoJob THEN [mem EXCEPT ![id] = Completed(success)] ELSE mem]

\* get_job_status(job_id): the row when the query finds one, else the entry of
\* self._jobs (also when the query raises).
get_job_status(db, mem, id, db_ok) ==
    IF db_ok /\ db[id] # NoJob THEN db[id] ELSE mem[id]

StartJob ==
    /\ now <= MaxJobTime
    /\ \E job_type \in JobTypes, db_ok \in BOOLEAN :
        LET id == <<job_type, now>>
            r == start_job(jobs_db, jobs_mem, id, db_ok)
        IN  /\ jobs_db' = r.db
            /\ jobs_mem' = r.mem
            /\ jobs_ended' = [jobs_ended EXCEPT ![id] = "None"]
    /\ job_query' = NoQuery
    /\ UNCHANGED <<clientFields, envVars, rateVars, callVars, thr, dbVars, saveVars,
                   loadVars, segVars, tlVars, pmVars, usageVars>>

EndJob ==
    /\ \E id \in JobIds, success \in {"True", "False"}, db_ok \in BOOLEAN :
        /\ jobs_mem[id] = Running
        /\ LET r == end_job(jobs_db, jobs_mem, id, success, db_ok)
           IN  /\ jobs_db' = r.db
               /\ jobs_mem' = r.mem
        /\ jobs_ended' = [jobs_ended EXCEPT ![id] = success]
    /\ job_query' = NoQuery
    /\ UNCHANGED <<clientFields, envVars, rateVars, callVars, thr, dbVars, saveVars,
                   loadVars, segVars, tlVars, pmVars, usageVars>>

GetJobStatus ==
    /\ \E id \in JobIds, db_ok \in BOOLEAN :
        job_query' = [id |-> id, result |-> get_job_status(jobs_db, jobs_mem, id, db_ok)]
    /\ UNCHANGED <<clientFields, envVars, rateVars, callVars, thr, dbVars, saveVars,
                   loadVars, segVars, jobs_db, jobs_mem, jobs_ended, tlVars, pmVars, usageVars>>

\* A second passes.
JobsTick ==
    /\ now < MaxJobTime
    /\ now' = now + 1
    /\ UNCHANGED <<clientFields, posts, gets, sleeps, token_failures, rateVars, callVars,
                   thr, dbVars, saveVars, loadVars, segVars, jobVars, tlVars, pmVars, usageVars>>

(***************************************************************************)
(* SpecJobs: jobs started, ended and queried in any order.                 *)
(***************************************************************************)
InitJobs ==
    /\ ClientInit
    /\ EnvInit
    /\ RateIdle
    /\ CallIdle
    /\ ThreadsIdle
    /\ DbEmpty
    /\ SaveIdle
    /\ LoaderIdle
    /\ SegmentsIdle
    /\ JobsIdle
    /\ TrainingIdle
    /\ PowerIdle
    /\ UsageIdle

NextJobs ==
    \/ StartJob
    \/ EndJob
    \/ GetJobStatus
    \/ JobsTick

SpecJobs == InitJobs /\ [][NextJobs]_vars

\* C12 as stated: once end_job(job_id, success) has returned, get_job_status
\* (job_id) reports status 'completed' with that success value, also when a
\* database operation failed during start_job or end_job.
C12_Original ==
    (job_query # NoQuery /\ jobs_ended[job_query.id] # "None")
    => job_query.result = Completed(jobs_ended[job_query.id])

\* C30 as stated: any two start_job calls return different job ids, so no
\* step resets the tracked state of a job that exists: its entry of self._jobs
\* and its row stay as they are or go from running to completed.
C30_Original ==
    [][\A id \in JobIds :
         /\ jobs_mem[id] # NoJob =>
               \/ jobs_mem'[id] = jobs_mem[id]
               \/ jobs_mem[id] = Running /\ jobs_mem'[id].status = "completed"
         /\ jobs_db[id] # NoJob =>
               \/ jobs_db'[id] = jobs_db[id]
               \/ jobs_db[id] = Running /\ jobs_db'[id].status = "completed"]_vars

(***************************************************************************)
(* SpecReruns: runs of load_missing_streams one after the other, with      *)
(* save_activities run between them on a batch of summaries.  The table    *)
(* starts with rows that have no power metrics (some from before 2013),   *)
(* rows that have them, and rows with normalized_power but no              *)
(* best_10m_power.                                                         *)
(***************************************************************************)
\* how often load_missing_streams is run
MaxStreamRuns == 2
\* the most rows of table activities when the runs start
MaxRerunActivities == 2

WithMetrics(row) ==
    [row EXCEPT !.normalized_power = 0, !.best_10m_power = 0, !.max_power = 200]
WithoutBest10m(row) ==
    [row EXCEPT !.normalized_power = 0, !.max_power = 200]
RowKinds(i) ==
    {Row(i, FALSE, 3600), WithMetrics(Row(i, FALSE, 3600)),
     WithoutBest10m(Row(i, FALSE, 3600)), Row(i, TRUE, 3600)}
RerunTables ==
    UNION {{t \in [1..n -> UNION {RowKinds(i) : i \in 1..n}] :
              \A i \in 1..n : t[i] \in RowKinds(i)} : n \in 0..MaxRerunActivities}
RerunBatches == {b \in Batches : Len(b) = 1}

InitReruns ==
    /\ access_token = 1
    /\ token_expires_at = TokenLifetime
    /\ env_file = <<access_token, token_expires_at>>
    /\ api_usage = <<0, 0>>
    /\ EnvInit
    /\ RateIdle
    /\ CallIdle
    /\ ThreadsIdle
    /\ db_activities \in RerunTables
    /\ batch \in RerunBatches
    /\ save_runs = 0
    /\ save_last = NoSave
    /\ after_first_save = <<>>
    /\ LoaderIdle
    /\ SegmentsIdle
    /\ JobsIdle
    /\ TrainingIdle
    /\ PowerIdle
    /\ UsageIdle

RerunLoadMissingStreams ==
    /\ loader.runs < MaxStreamRuns
    /\ \E limit \in 0..MaxLimit : LMS_Start(limit)
SaveBetweenRuns ==
    /\ loader.pc \in {"idle", "done"}
    /\ SaveActivities

NextReruns ==
    \/ RerunLoadMissingStreams
    \/ SaveBetweenRuns
    \/ LMS_Skip
    \/ LMS_Fetch
    \/ LoaderFetchIter
    \/ LMS_Handle
    \/ LMS_Finish

SpecReruns == InitReruns /\ [][NextReruns]_vars

\* The row has the power metrics load_missing_streams writes, committed.
HasCommittedMetrics(pk) ==
    /\ db_activities[pk].normalized_power # NoneVal
    /\ db_activities[pk].best_10m_power # NoneVal
RECURSIVE Elements(_)
Elements(q) == IF q = <<>> THEN {} ELSE {Head(q)} \cup Elements(Tail(q))

\* C14: an activity whose power metrics load_missing_streams has written and
\* committed is never selected as a stream candidate again, and its row is
\* never changed afterwards, neither by a later run nor by save_activities.
C14_WrittenOnce ==
    [][\A pk \in 1..Len(db_activities) :
          HasCommittedMetrics(pk) =>
             /\ db_activities'[pk] = db_activities[pk]
             /\ loader'.runs # loader.runs => pk \notin Elements(loader'.activities)
             /\ (loader'.pc \notin {"idle", "done"} /\ loader'.runs = loader.runs) =>
                   session'[pk] = db_activities[pk]]_vars

\* C14 witness: the first run committed the metrics of activity 1, then
\* save_activities added a row, and the second run has ended having taken
\* only other activities as candidates.
C14_Witness ==
    /\ loader.runs = 2
    /\ loader.pc = "done"
    /\ save_runs >= 1
    /\ save_last.inserted = 1
    /\ Len(after_first_save) >= 2
    /\ after_first_save[1].max_power = 200
    /\ after_first_save[1].best_10m_power = 0
    /\ loader.activities # <<>>
    /\ 1 \notin Elements(loader.activities)
    /\ loader.updated # {}

(***************************************************************************)
(* The training load: TrainingLoadCalculator.sync_training_load and        *)
(* sync_training_load of strava_sync.py, which write the same table.       *)
(* Dates are day numbers.  The floats are fixed-point numbers in           *)
(* thousandths: tss is rounded to two decimals by the code, ctl, atl and   *)
(* tsb are truncated to three here.  Factors (exp, pow) are in thousandths *)
(* too.                                                                    *)
(***************************************************************************)
DefaultFtp == 200
CtlDays == 42
AtlDays == 7
\* atl_decay_variable = 0.9 and atl_increase_dampening = 0.7, in tenths
AtlDecayTenths == 9
AtlDampeningTenths == 7

\* get_ftp_for_date: the ftp of the latest record with date <= activity_date.
\* the same query ordered by date ascending: the earliest record wins
get_earliest_ftp(hist, activity_date) ==
    LET upto == {r \in hist : r.date <= activity_date}
    IN  IF upto = {} THEN DefaultFtp
        ELSE (CHOOSE r \in upto : \A q \in upto : r.date <= q.date).ftp
get_ftp_for_date(hist, activity_date) ==
    LET upto == {r \in hist : r.date <= activity_date}
    IN  IF upto = {} THEN DefaultFtp
        ELSE (CHOOSE r \in upto : \A q \in upto : q.date <= r.date).ftp

\* round(num / den, 0) for num >= 0, den > 0
RoundDiv(num, den) == (2 * num + den) \div (2 * den)
\* round(num / den, 2) in thousandths
Round2(num, den) == 10 * (100 * (num \div den) + RoundDiv(100 * (num % den), den))

\* "np = act.normalized_power if act.normalized_power else self.estimate_np(..)"
\* (None and 0 are both falsy); the estimate is a column of the model's row.
NpOf(act) == IF act.normalized_power > 0 THEN act.normalized_power ELSE act.np_est

\* "tss = round((act.moving_time / 3600 * np * intensity_factor) / ftp * 100, 2)
\*  if np and ftp else 0", with intensity_factor = np / ftp; in thousandths.
TssOf(act, ftp) ==
    IF NpOf(act) # 0 /\ ftp # 0
    THEN Round2(act.moving_time * NpOf(act) * NpOf(act), 36 * ftp * ftp)
    ELSE 0

\* The entry built for one activity (lines 84-105).
EntryOf(act, hist) ==
    LET tss == TssOf(act, get_ftp_for_date(hist, act.date))
    IN  [date |-> act.date, tss |-> tss, ctl |-> 0, atl |-> 0, tsb |-> 0,
         avg_normalized_power |-> IF act.normalized_power > 0
                                  THEN act.normalized_power ELSE 0,
         power_tss |-> IF act.normalized_power > 0 THEN tss ELSE 0]

Max2(a, b) == IF a >= b THEN a ELSE b

\* "existing_entry = next((tl for tl in training_loads if tl["date"] ==
\*  activity_date), None)": the index of the first entry of that date, or 0.
NoEntryOfDate(loads, date) == 0
EntryOfDate(loads, date) ==
    IF \E i \in 1..Len(loads) : loads[i].date = date
    THEN CHOOSE i \in 1..Len(loads) :
            /\ loads[i].date = date
            /\ \A j \in 1..(i - 1) : loads[j].date # date
    ELSE 0

\* The loop over the activities (lines 78-128): one entry per date, summed.
RECURSIVE DailyLoads(_, _, _)
DailyLoads(acts, hist, loads) ==
    IF acts = <<>> THEN loads
    ELSE LET e == EntryOf(Head(acts), hist)
             i == EntryOfDate(loads, e.date)
         IN  DailyLoads(Tail(acts), hist,
                IF i # 0
                THEN [loads EXCEPT ![i] =
                        [@ EXCEPT !.tss = @ + e.tss,
                                  !.power_tss = @ + e.power_tss,
                                  !.avg_normalized_power =
                                      Max2(@, e.avg_normalized_power)]]
                ELSE Append(loads, e))

\* training_loads.sort(key=lambda x: x["date"]): a stable sort.
RECURSIVE InsertByDate(_, _)
InsertByDate(sorted, e) ==
    IF sorted = <<>> THEN <<e>>
    ELSE IF sorted[Len(sorted)].date <= e.date THEN Append(sorted, e)
    ELSE Append(InsertByDate(SubSeq(sorted, 1, Len(sorted) - 1), e),
                sorted[Len(sorted)])
RECURSIVE SortByDate(_)
SortByDate(loads) ==
    IF loads = <<>> THEN <<>>
    ELSE InsertByDate(SortByDate(SubSeq(loads, 1, Len(loads) - 1)), loads[Len(loads)])

\* math.exp(-k / 42.0) for k = 1..11, to three decimals; exp(0) = 1 and
\* exp(1 / 42.0) = 1.024 (a date_diff of 0).
ExpTable == <<976, 953, 931, 909, 888, 867, 846, 827, 807, 788, 770>>
CtlGrowth(date_diff) == 2000 - ExpTable[9]
CtlDecay(date_diff) ==
    IF date_diff - 1 = 0 THEN 1000
    ELSE IF date_diff - 1 < 0 THEN 1024
    ELSE ExpTable[date_diff - 1]

\* pow(atl_decay_variable, date_diff)
RECURSIVE AtlDecay(_)
AtlDecay(date_diff) ==
    IF date_diff = 0 THEN 1000 ELSE (AtlDecay(date_diff - 1) * AtlDecayTenths) \div 10

\* The first record (lines 153-155).
\* the first day with the tsb assignment of line 155 left out
FirstDayWithoutTsb(curr) ==
    [curr EXCEPT !.ctl = curr.tss \div CtlDays, !.atl = curr.tss \div AtlDays]
FirstDay(curr) ==
    LET ctl == curr.tss \div CtlDays
        atl == curr.tss \div AtlDays
    IN  [curr EXCEPT !.ctl = ctl, !.atl = atl, !.tsb = ctl - atl]

\* One pass of the loop of _calculate_fitness_metrics (lines 158-172).
NextDay(prev, curr) ==
    LET date_diff == curr.date - prev.date
        decayed_ctl == (prev.ctl * CtlDecay(date_diff)) \div 1000
        decay_atl == AtlDecay(date_diff)
        ctl == IF date_diff = 1
               THEN prev.ctl + (curr.tss - prev.ctl) \div CtlDays
               ELSE decayed_ctl + (curr.tss - decayed_ctl) \div CtlDays
        atl == IF date_diff = 1
               THEN prev.atl
                    + (AtlDampeningTenths * ((curr.tss - prev.atl) \div AtlDays)) \div 10
               ELSE (prev.atl * decay_atl) \div 1000
                    + (AtlDampeningTenths
                       * (((curr.tss * (1000 - decay_atl)) \div 1000) \div AtlDays)) \div 10
    IN  [curr EXCEPT !.ctl = ctl, !.atl = atl, !.tsb = ctl - atl]

RECURSIVE FitnessFrom(_, _)
FitnessFrom(done, rest) ==
    IF rest = <<>> THEN done
    ELSE FitnessFrom(Append(done, NextDay(done[Len(done)], Head(rest))), Tail(rest))

\* _calculate_fitness_metrics(training_loads)
calculate_fitness_metrics(training_loads) ==
    IF training_loads = <<>> THEN <<>>
    ELSE LET sorted == SortByDate(training_loads)
         IN  FitnessFrom(<<FirstDay(Head(sorted))>>, Tail(sorted))

\* "existing_loads = {tl.date: tl for tl in TrainingLoad.query.all()}": for a
\* date the dict keeps the last row read; 0 when the date has no row.
ExistingLoad(table, date) ==
    IF \E i \in 1..Len(table) : table[i].date = date
    THEN CHOOSE i \in 1..Len(table) :
            /\ table[i].date = date
            /\ \A j \in (i + 1)..Len(table) : table[j].date # date
    ELSE 0

\* The loop of _save_training_loads (lines 191-220); existing is the table as
\* it was read before the loop.  The columns max_daily_power and
\* power_balance are left out.
RECURSIVE SaveLoads(_, _, _)
SaveLoads(acc, loads, existing) ==
    IF loads = <<>> THEN acc
    ELSE LET load == Head(loads)
             i == ExistingLoad(existing, load.date)
         IN  SaveLoads(IF i # 0
                       THEN [table |-> [acc.table EXCEPT ![i] = load],
                             updates |-> acc.updates + 1, inserts |-> acc.inserts]
                       ELSE [table |-> Append(acc.table, load),
                             updates |-> acc.updates, inserts |-> acc.inserts + 1],
                       Tail(loads), existing)

\* "query.filter(Activity.start_date >= after_date)" when after_date is given
RECURSIVE ActivitiesAfter(_, _)
ActivitiesAfter(acts, after_date) ==
    IF acts = <<>> THEN <<>>
    ELSE IF after_date = NoneVal \/ Head(acts).date >= after_date
         THEN <<Head(acts)>> \o ActivitiesAfter(Tail(acts), after_date)
         ELSE ActivitiesAfter(Tail(acts), after_date)

\* The last run was the calculator's, over the whole history, and succeeded.
FullSyncDone == tl_sync.who = "calculator" /\ tl_sync.after_date = NoneVal /\ tl_sync.ret

\* TrainingLoadCalculator.sync_training_load(after_date); commit_ok is whether
\* db.session.commit() succeeds (a failure rolls everything back).  Field
\* rerun records that the run before was a full successful one as well.
SyncTrainingLoadRun(after_date, commit_ok) ==
    LET activities == ActivitiesAfter(tl_activities, after_date)
        loads == calculate_fitness_metrics(DailyLoads(activities, ftp_history, <<>>))
        saved == SaveLoads([table |-> training_load, updates |-> 0, inserts |-> 0],
                           loads, training_load)
        run == [runs |-> tl_sync.runs + 1, who |-> "calculator", after_date |-> after_date,
                loads |-> loads, before |-> training_load,
                inserts |-> 0, updates |-> 0, ret |-> FALSE, rerun |-> FullSyncDone]
    IN  IF activities = <<>>
        THEN /\ tl_sync' = [run EXCEPT !.loads = <<>>]
             /\ UNCHANGED training_load
        ELSE IF commit_ok
        THEN /\ training_load' = saved.table
             /\ tl_sync' = [run EXCEPT !.inserts = saved.inserts,
                                       !.updates = saved.updates, !.ret = TRUE]
        ELSE /\ tl_sync' = run
             /\ UNCHANGED training_load

(***************************************************************************)
(* sync_training_load of strava_sync.py: one entry per activity, a TSS     *)
(* from average_speed, the plain recurrence, and the same upsert by date.  *)
(***************************************************************************)
\* "np = act.average_speed * 0.75 * ftp", intensity_factor = np / ftp, so
\* tss = round(moving_time / 3600 * (0.75 * average_speed)^2 * 100, 2)
SimpleTssOf(act) ==
    Round2(act.moving_time * 9 * act.average_speed * act.average_speed, 576)

RECURSIVE SimpleLoads(_)
SimpleLoads(acts) ==
    IF acts = <<>> THEN <<>>
    ELSE <<[date |-> Head(acts).date, tss |-> SimpleTssOf(Head(acts)),
            ctl |-> 0, atl |-> 0, tsb |-> 0,
            avg_normalized_power |-> NoneVal, power_tss |-> NoneVal]>>
         \o SimpleLoads(Tail(acts))

SimpleNextDay(prev, curr) ==
    LET ctl == prev.ctl + (curr.tss - prev.ctl) \div CtlDays
        atl == prev.atl + (curr.tss - prev.atl) \div AtlDays
    IN  [curr EXCEPT !.ctl = ctl, !.atl = atl, !.tsb = ctl - atl]

RECURSIVE SimpleFitnessFrom(_, _)
SimpleFitnessFrom(done, rest) ==
    IF rest = <<>> THEN done
    ELSE SimpleFitnessFrom(Append(done, SimpleNextDay(done[Len(done)], Head(rest))),
                           Tail(rest))

\* An update keeps the power columns of the row (only tss, ctl, atl and tsb
\* are assigned); an insert leaves them NULL.
RECURSIVE SimpleSaveLoads(_, _, _)
SimpleSaveLoads(table, loads, existing) ==
    IF loads = <<>> THEN table
    ELSE LET load == Head(loads)
             i == ExistingLoad(existing, load.date)
         IN  SimpleSaveLoads(IF i # 0
                             THEN [table EXCEPT ![i] =
                                     [@ EXCEPT !.tss = load.tss, !.ctl = load.ctl,
                                               !.atl = load.atl, !.tsb = load.tsb]]
                             ELSE Append(table, load),
                             Tail(loads), existing)

StravaSyncRun(commit_ok) ==
    LET entries == SimpleLoads(tl_activities)
        loads == IF entries = <<>> THEN <<>>
                 ELSE SimpleFitnessFrom(<<FirstDay(Head(entries))>>, Tail(entries))
        run == [runs |-> tl_sync.runs + 1, who |-> "strava_sync", after_date |-> NoneVal,
                loads |-> loads, before |-> training_load,
                inserts |-> 0, updates |-> 0, ret |-> FALSE, rerun |-> FALSE]
    IN  /\ tl_sync' = run
        /\ training_load' = IF tl_activities # <<>> /\ commit_ok
                            THEN SimpleSaveLoads(training_load, loads, training_load)
                            ELSE training_load

(***************************************************************************)
(* SpecTraining: the two syncs run one after the other over a fixed        *)
(* history of activities and a fixed FTP history.                          *)
(***************************************************************************)
\* the most activities in the history
MaxTrainingActivities == 3
\* how often a sync is run
MaxSyncRuns == 2
\* the days between one activity and the next
DateGaps == {0, 1, 10}
FirstDate == 1

\* With FTP 200: a TSS of 0, 30 and 50 from a power meter, 12.5 from the estimate.
TrainingActivityKinds ==
    [moving_time : {0, 1080, 1800}, normalized_power : {200},
     np_est : {100}, average_speed : {2}]
    \cup [moving_time : {1800}, normalized_power : {NoneVal},
          np_est : {100}, average_speed : {2}]
RECURSIVE DatesFrom(_, _)
DatesFrom(date, gaps) ==
    IF gaps = <<>> THEN <<>>
    ELSE <<date + Head(gaps)>> \o DatesFrom(date + Head(gaps), Tail(gaps))
TrainingHistories ==
    {<<>>} \cup
    UNION {{[i \in 1..n |->
               [date |-> (<<FirstDate>> \o DatesFrom(FirstDate, g))[i],
                moving_time |-> k[i].moving_time,
                normalized_power |-> k[i].normalized_power,
                np_est |-> k[i].np_est, average_speed |-> k[i].average_speed]] :
              g \in [1..(n - 1) -> DateGaps], k \in [1..n -> TrainingActivityKinds]} :
           n \in 1..MaxTrainingActivities}
FtpHistories == {{}, {[date |-> FirstDate + 1, ftp |-> 250]}}

InitTraining ==
    /\ ClientInit
    /\ EnvInit
    /\ RateIdle
    /\ CallIdle
    /\ ThreadsIdle
    /\ DbEmpty
    /\ SaveIdle
    /\ LoaderIdle
    /\ SegmentsIdle
    /\ JobsIdle
    /\ PowerIdle
    /\ UsageIdle
    /\ tl_activities \in TrainingHistories
    /\ ftp_history \in FtpHistories
    /\ training_load = <<>>
    /\ tl_sync = NoSync
    /\ ftp_query = NoFtpQuery

SyncTrainingLoad ==
    /\ tl_sync.runs < MaxSyncRuns
    /\ \E after_date \in {NoneVal} \cup {tl_activities[i].date : i \in 1..Len(tl_activities)},
          commit_ok \in BOOLEAN :
          SyncTrainingLoadRun(after_date, commit_ok)
    /\ UNCHANGED <<clientFields, envVars, rateVars, callVars, thr, dbVars, saveVars, loadVars,
                   segVars, jobVars, tl_activities, ftp_history, ftp_query, pmVars, usageVars>>

StravaSync ==
    /\ tl_sync.runs < MaxSyncRuns
    /\ \E commit_ok \in BOOLEAN : StravaSyncRun(commit_ok)
    /\ UNCHANGED <<clientFields, envVars, rateVars, callVars, thr, dbVars, saveVars, loadVars,
                   segVars, jobVars, tl_activities, ftp_history, ftp_query, pmVars, usageVars>>

NextTraining ==
    \/ SyncTrainingLoad
    \/ StravaSync

SpecTraining == InitTraining /\ [][NextTraining]_vars

(***************************************************************************)
(* Properties of the training load, checked under SpecTraining.            *)
(***************************************************************************)
\* The records that follow their predecessor after a 10-day gap, in the list
\* _calculate_fitness_metrics has worked on.
AfterTenDayGap ==
    {i \in 2..Len(tl_sync.loads) : tl_sync.loads[i].date - tl_sync.loads[i - 1].date = 10}

\* C17 as stated: the CTL of a record that follows the previous record after
\* a 10-day gap is strictly lower than the CTL of the previous record.
C17_Original ==
    tl_sync.who = "calculator" =>
        \A i \in AfterTenDayGap : tl_sync.loads[i].ctl < tl_sync.loads[i - 1].ctl

\* C17: after a 10-day gap the CTL is strictly lower than before the gap when
\* the CTL before the gap is positive and the TSS of the record after the gap
\* does not exceed it.
C17_GapDecay ==
    tl_sync.who = "calculator" =>
        \A i \in AfterTenDayGap :
            (tl_sync.loads[i - 1].ctl > 0 /\ tl_sync.loads[i].tss <= tl_sync.loads[i - 1].ctl)
            => tl_sync.loads[i].ctl < tl_sync.loads[i - 1].ctl

\* C17 witness: a record with no training stress follows, after a 10-day gap,
\* a record with a positive CTL, and its CTL is positive and lower.
C17_Witness ==
    /\ tl_sync.who = "calculator"
    /\ \E i \in AfterTenDayGap :
          /\ tl_sync.loads[i - 1].ctl > 0
          /\ tl_sync.loads[i].tss = 0
          /\ tl_sync.loads[i].ctl > 0
          /\ tl_sync.loads[i].ctl < tl_sync.loads[i - 1].ctl

\* The activities the last run of the calculator read, and their dates.
SyncedActivities == ActivitiesAfter(tl_activities, tl_sync.after_date)
SyncedDates == {SyncedActivities[i].date : i \in 1..Len(SyncedActivities)}
RECURSIVE SumTss(_)
SumTss(indices) ==
    IF indices = {} THEN 0
    ELSE LET i == CHOOSE k \in indices : TRUE
         IN  TssOf(SyncedActivities[i], get_ftp_for_date(ftp_history, SyncedActivities[i].date))
             + SumTss(indices \ {i})
TssOfDate(date) ==
    SumTss({i \in 1..Len(SyncedActivities) : SyncedActivities[i].date = date})

\* C18: sync_training_load produces exactly one daily record per calendar
\* date, whose TSS is the sum of the TSS of all activities starting on that
\* date, and the CTL/ATL recurrence takes that date as a single day: the
\* records are in strictly increasing date order and each one's ctl and atl
\* come from the previous day's record and the date's total TSS.
C18_DailyTotals ==
    tl_sync.who = "calculator" =>
        LET loads == tl_sync.loads
        IN  /\ {loads[i].date : i \in 1..Len(loads)} = SyncedDates
            /\ Len(loads) = Cardinality(SyncedDates)
            /\ \A i \in 1..Len(loads) : loads[i].tss = TssOfDate(loads[i].date)
            /\ \A i \in 2..Len(loads) :
                  /\ loads[i].date > loads[i - 1].date
                  /\ loads[i].ctl = NextDay(loads[i - 1],
                        [loads[i] EXCEPT !.tss = TssOfDate(loads[i].date)]).ctl
                  /\ loads[i].atl = NextDay(loads[i - 1],
                        [loads[i] EXCEPT !.tss = TssOfDate(loads[i].date)]).atl
            /\ Len(loads) >= 1 =>
                  /\ loads[1].ctl = TssOfDate(loads[1].date) \div CtlDays
                  /\ loads[1].atl = TssOfDate(loads[1].date) \div AtlDays

\* C18 witness: two activities of one date with a TSS of 50 and of 30 gave one
\* record with a TSS of 80, which the recurrence took after an earlier day,
\* and the record was stored.
C18_Witness ==
    /\ tl_sync.who = "calculator"
    /\ tl_sync.ret
    /\ \E i \in 2..Len(tl_sync.loads), a, b \in 1..Len(SyncedActivities) :
          /\ a # b
          /\ SyncedActivities[a].date = tl_sync.loads[i].date
          /\ SyncedActivities[b].date = tl_sync.loads[i].date
          /\ TssOf(SyncedActivities[a], DefaultFtp) = 50000
          /\ TssOf(SyncedActivities[b], DefaultFtp) = 30000
          /\ tl_sync.loads[i].tss = 80000
          /\ tl_sync.loads[i].ctl > 0
          /\ \E r \in 1..Len(training_load) : training_load[r] = tl_sync.loads[i]

\* The rows of table training_load for a date.
RowsOfDate(date) == {r \in 1..Len(training_load) : training_load[r].date = date}
ActivityDates == {tl_activities[i].date : i \in 1..Len(tl_activities)}

\* C19: after sync_training_load (over the whole history, returning True)
\* there is exactly one TrainingLoad row for every date that has an activity,
\* and a run that follows such a run inserts no row and leaves every row as
\* it was.
C19_Original ==
    FullSyncDone =>
        /\ \A d \in ActivityDates : Cardinality(RowsOfDate(d)) = 1
        /\ tl_sync.rerun => (tl_sync.inserts = 0 /\ training_load = tl_sync.before)

(***************************************************************************)
(* PowerCalculator: the best-interval part of calculate_power_intervals    *)
(* (lines 18-105) and rolling_average, for series of any length.  Averages *)
(* are truncated to whole watts; a sample of NoneVal is None.              *)
(***************************************************************************)
BestWindows == <<600, 1200, 1800, 2700, 3600>>

RECURSIVE SumRange(_, _, _)
SumRange(q, i, j) ==
    IF j - i < 4
    THEN IF i > j THEN 0
         ELSE IF i = j THEN q[i]
         ELSE IF i + 1 = j THEN q[i] + q[j]
         ELSE IF i + 2 = j THEN q[i] + q[i + 1] + q[j]
         ELSE q[i] + q[i + 1] + q[i + 2] + q[j]
    ELSE SumRange(q, i, (i + j) \div 2) + SumRange(q, (i + j) \div 2 + 1, j)

\* "end_idx = i; while end_idx < len(time_data) and time_data[end_idx] -
\*  time_data[i] < window_seconds: end_idx += 1", with indices from 1: the
\* first index from i whose time is window_seconds or more after time_data[i],
\* or the one past the end.
EndIdx(time_data, i, window_seconds) ==
    IF time_data[Len(time_data)] - time_data[i] < window_seconds
    THEN Len(time_data) + 1
    ELSE CHOOSE e \in i..Len(time_data) :
            /\ time_data[e] - time_data[i] >= window_seconds
            /\ e = i \/ time_data[e - 1] - time_data[i] < window_seconds

\* One pass of the loop of rolling_average: the average appended for the
\* window that starts at i, if any.
WindowAverage(power_data, time_data, i, window_seconds) ==
    LET end_idx == EndIdx(time_data, i, window_seconds)
    IN  IF end_idx > i
        THEN {SumRange(power_data, i, end_idx - 1) \div (end_idx - i)}
        ELSE {}

\* rolling_average(power_data, time_data, window_seconds): the values of the
\* list it returns.
rolling_average(power_data, time_data, window_seconds) ==
    IF Len(power_data) < 2 THEN {0}
    ELSE LET results ==
               UNION {WindowAverage(power_data, time_data, i, window_seconds) :
                        i \in 1..Len(power_data)}
         IN  IF results = {} THEN {0} ELSE results

MaxOfSet(values) == CHOOSE v \in values : \A u \in values : u <= v

\* "if len(power_data) >= 600:" and the like
LongerThanWindow(len, window_seconds) == len > window_seconds
CoversWindow(len, window_seconds) == len >= window_seconds

\* One of the five blocks of lines 46-105.
best_interval(power_data, time_data, window_seconds) ==
    IF CoversWindow(Len(power_data), window_seconds)
    THEN MaxOfSet(rolling_average(power_data, time_data, window_seconds))
    ELSE 0

\* Lines 18-105: None (state "invalid") or the best-interval powers and max.
InvalidStream == [state |-> "invalid"]
ValidIndices(power_data) == {i \in 1..Len(power_data) : power_data[i] >= 0}
RECURSIVE Kept(_, _, _)
Kept(q, valid, i) ==
    IF i > Len(q) THEN <<>>
    ELSE (IF i \in valid THEN <<q[i]>> ELSE <<>>) \o Kept(q, valid, i + 1)
calculate_best_intervals(stream_data) ==
    IF Len(stream_data.watts) # Len(stream_data.time) THEN InvalidStream
    ELSE LET valid == ValidIndices(stream_data.watts)
             all_valid == valid = 1..Len(stream_data.watts)
             power_data == IF all_valid THEN stream_data.watts
                           ELSE Kept(stream_data.watts, valid, 1)
             time_data == IF all_valid THEN stream_data.time
                          ELSE Kept(stream_data.time, valid, 1)
         IN  IF valid = {} THEN InvalidStream
             ELSE [state |-> "done",
                   best |-> [b \in 1..Len(BestWindows) |->
                               best_interval(power_data, time_data, BestWindows[b])],
                   max_power |-> MaxOfSet({power_data[i] : i \in 1..Len(power_data)})]

(***************************************************************************)
(* SpecPower: calculate_power_intervals on constant series sampled once    *)
(* per second: every short length with a few power values, and the lengths *)
(* around the windows.                                                     *)
(***************************************************************************)
\* the short series have up to MaxShortSeries samples
MaxShortSeries == 40
ConstantPowers == {0, 150, 300}
WindowLengths == {599, 600, 3600}
\* The sequence of the samples a..b of a series that starts at first and
\* grows by step.
RECURSIVE Samples(_, _, _, _)
Samples(a, b, first, step) ==
    IF a > b THEN <<>>
    ELSE IF a = b THEN <<first + (a - 1) * step>>
    ELSE Samples(a, (a + b) \div 2, first, step)
         \o Samples((a + b) \div 2 + 1, b, first, step)
ConstantSeries(power, len) ==
    [watts |-> Samples(1, len, power, 0), time |-> Samples(1, len, 0, 1)]
PowerStreams ==
    {ConstantSeries(power, len) : power \in ConstantPowers, len \in 0..MaxShortSeries}
    \cup {ConstantSeries(150, len) : len \in WindowLengths}
    \cup {[watts |-> <<NoneVal, 150, NoneVal>>, time |-> <<0, 1, 2>>],
          [watts |-> <<150, 150>>, time |-> <<0>>]}

InitPower ==
    /\ ClientInit
    /\ EnvInit
    /\ RateIdle
    /\ CallIdle
    /\ ThreadsIdle
    /\ DbEmpty
    /\ SaveIdle
    /\ LoaderIdle
    /\ SegmentsIdle
    /\ JobsIdle
    /\ TrainingIdle
    /\ UsageIdle
    /\ pm_stream \in PowerStreams
    /\ pm_result = NotCalculated

CalculatePowerIntervals ==
    /\ pm_result = NotCalculated
    /\ pm_result' = calculate_best_intervals(pm_stream)
    /\ UNCHANGED <<clientFields, envVars, rateVars, callVars, thr, dbVars, saveVars, loadVars,
                   segVars, jobVars, tlVars, pm_stream, usageVars>>

NextPower == CalculatePowerIntervals

SpecPower == InitPower /\ [][NextPower]_vars

\* The series is constant, non-negative and sampled once per second.
ConstantOncePerSecond ==
    /\ Len(pm_stream.watts) >= 1
    /\ Len(pm_stream.time) = Len(pm_stream.watts)
    /\ \A i \in 1..Len(pm_stream.watts) :
          /\ pm_stream.watts[i] = pm_stream.watts[1]
          /\ pm_stream.time[i] = i - 1
    /\ pm_stream.watts[1] >= 0

\* C20: for a constant non-negative power series sampled once per second,
\* every best-interval result whose window does not exceed the series length
\* equals the constant, and every one whose window exceeds it is 0.
C20_ConstantSeries ==
    (pm_result # NotCalculated /\ ConstantOncePerSecond) =>
        /\ pm_result.state = "done"
        /\ \A b \in 1..Len(BestWindows) :
              pm_result.best[b] = IF BestWindows[b] <= Len(pm_stream.watts)
                                  THEN pm_stream.watts[1] ELSE 0

\* C20 witness: a series of 3600 samples of 150 W gave 150 W for all five
\* windows.
C20_Witness ==
    /\ pm_result.state = "done"
    /\ ConstantOncePerSecond
    /\ Len(pm_stream.watts) = 3600
    /\ \A b \in 1..Len(BestWindows) : pm_result.best[b] = 150

\* C22: after _calculate_fitness_metrics every daily record has
\* tsb = ctl - atl, whatever the number of records and the gaps between them.
C22_TsbIsCtlMinusAtl ==
    (tl_sync.runs > 0 /\ tl_sync.who = "calculator") =>
        \A i \in 1..Len(tl_sync.loads) :
            tl_sync.loads[i].tsb = tl_sync.loads[i].ctl - tl_sync.loads[i].atl

\* three daily records, one day and then ten days apart, none with tsb 0
C22_Witness ==
    /\ tl_sync.runs > 0
    /\ tl_sync.who = "calculator"
    /\ Len(tl_sync.loads) = 3
    /\ tl_sync.loads[2].date - tl_sync.loads[1].date = 1
    /\ tl_sync.loads[3].date - tl_sync.loads[2].date = 10
    /\ \A i \in 1..3 : tl_sync.loads[i].tsb # 0

\* What a full recomputation sync_training_load() computes from the whole
\* activity history.
FullRecomputation == calculate_fitness_metrics(DailyLoads(tl_activities, ftp_history, <<>>))

\* C24: for every date on or after after_date, sync_training_load(after_date)
\* stores the same tss, ctl, atl and tsb as a full recomputation over the whole
\* activity history would store for that date (the statement as claimed).
C24_Original ==
    (tl_sync.runs > 0 /\ tl_sync.who = "calculator" /\ tl_sync.after_date # NoneVal
       /\ tl_sync.ret) =>
        \A i \in 1..Len(tl_sync.loads) :
            \E j \in 1..Len(FullRecomputation) :
                /\ FullRecomputation[j].date = tl_sync.loads[i].date
                /\ FullRecomputation[j].tss = tl_sync.loads[i].tss
                /\ FullRecomputation[j].ctl = tl_sync.loads[i].ctl
                /\ FullRecomputation[j].atl = tl_sync.loads[i].atl
                /\ FullRecomputation[j].tsb = tl_sync.loads[i].tsb

(***************************************************************************)
(* SpecFtp: get_ftp_for_date applied to FTP histories of up to three       *)
(* records (FTPHistory.date is unique) and to every date around them.      *)
(***************************************************************************)
MaxFtpDate == 7
FtpRecordDates == {2, 4, 6}
FtpValues == {150, 200, 220}
FtpQueryDates == 1..MaxFtpDate
FtpTables ==
    {{[date |-> d, ftp |-> f[d]] : d \in ds} : ds \in SUBSET FtpRecordDates,
                                                f \in [FtpRecordDates -> FtpValues]}

InitFtp ==
    /\ ClientInit
    /\ EnvInit
    /\ RateIdle
    /\ CallIdle
    /\ ThreadsIdle
    /\ DbEmpty
    /\ SaveIdle
    /\ LoaderIdle
    /\ SegmentsIdle
    /\ JobsIdle
    /\ PowerIdle
    /\ UsageIdle
    /\ tl_activities = <<>>
    /\ ftp_history \in FtpTables
    /\ training_load = <<>>
    /\ tl_sync = NoSync
    /\ ftp_query = NoFtpQuery

GetFtpForDate ==
    /\ \E activity_date \in FtpQueryDates :
          ftp_query' = [date |-> activity_date,
                        result |-> get_ftp_for_date(ftp_history, activity_date)]
    /\ UNCHANGED <<clientFields, envVars, rateVars, callVars, thr, dbVars, saveVars, loadVars,
                   segVars, jobVars, tl_activities, ftp_history, training_load, tl_sync,
                   pmVars, usageVars>>

NextFtp == GetFtpForDate

SpecFtp == InitFtp /\ [][NextFtp]_vars

\* C21: get_ftp_for_date(d) returns the ftp of the FTPHistory record with the
\* greatest date <= d, and the default 200 when no record has a date <= d.
C21_GreatestDate ==
    ftp_query # NoFtpQuery =>
        LET upto == {r \in ftp_history : r.date <= ftp_query.date}
        IN  /\ upto = {} => ftp_query.result = 200
            /\ upto # {} =>
                  \E r \in upto : /\ r.ftp = ftp_query.result
                                  /\ \A q \in ftp_history :
                                        q.date <= ftp_query.date => q.date <= r.date

\* records 2:200 and 4:220, looked up at date 3 between them: 200 is returned
C21_Witness ==
    /\ ftp_history = {[date |-> 2, ftp |-> 200], [date |-> 4, ftp |-> 220]}
    /\ ftp_query = [date |-> 3, result |-> 200]

\* the same records looked up before the first one: the default is returned
C21_WitnessDefault ==
    /\ ftp_history = {[date |-> 2, ftp |-> 150], [date |-> 4, ftp |-> 220]}
    /\ ftp_query = [date |-> 1, result |-> DefaultFtp]

(***************************************************************************)
(* SpecUsage: threads sharing one client call check_rate_limits (with the  *)
(* headers of a response) and get_api_usage, again and again.  Only the    *)
(* part of check_rate_limits that touches self._api_usage is followed: the *)
(* block under "with self._lock" (lines 113-117), one step per statement.  *)
(* get_api_usage copies the two entries under the lock (lines 481-485),    *)
(* one step per copy.  api_usage is the pair of the two 'used' entries.    *)
(***************************************************************************)
UsageInputs == MalformedPairs \cup {Pair(10, 100), Pair(20, 200)}

\* the lock taken whether or not another thread holds it
LockIgnored(t) == TRUE
\* "with self._lock:" can be entered
LockFree(t) == usage_lock = 0

UsageStep(t, frame) == usage_thr' = [usage_thr EXCEPT ![t] = frame]
usageRest ==
    <<access_token, token_expires_at, env_file, envVars, rateVars, callVars, thr, dbVars,
      saveVars, loadVars, segVars, jobVars, tlVars, pmVars>>

\* check_rate_limits(headers) is called with the headers of a response
CRL_Enter(t) ==
    /\ usage_thr[t].pc = "idle"
    /\ \E header \in UsageInputs :
          UsageStep(t, [NoUsageFrame EXCEPT !.pc = "acquire", !.fn = "check_rate_limits",
                                            !.header = header])
    /\ UNCHANGED <<api_usage, usage_lock, usage_applied, usageRest>>

\* get_api_usage() is called
GAU_Enter(t) ==
    /\ usage_thr[t].pc = "idle"
    /\ UsageStep(t, [NoUsageFrame EXCEPT !.pc = "acquire", !.fn = "get_api_usage"])
    /\ UNCHANGED <<api_usage, usage_lock, usage_applied, usageRest>>

\* "with self._lock:" is entered
UsageAcquire(t) ==
    /\ usage_thr[t].pc = "acquire"
    /\ LockFree(t)
    /\ usage_lock' = t
    /\ UsageStep(t, [usage_thr[t] EXCEPT
                        !.pc = IF usage_thr[t].fn = "check_rate_limits" THEN "parse"
                               ELSE "read_short"])
    /\ UNCHANGED <<api_usage, usage_applied, usageRest>>

\* "usage = self._parse_rate_limit_header(headers.get("X-RateLimit-Usage"))",
\* "if usage:"
CRL_Parse(t) ==
    /\ usage_thr[t].pc = "parse"
    /\ LET usage == parse_rate_limit_header(usage_thr[t].header)
       IN  UsageStep(t, [usage_thr[t] EXCEPT
                           !.usage = usage,
                           !.pc = IF usage # <<>> THEN "write_short" ELSE "release"])
    /\ UNCHANGED <<api_usage, usage_lock, usage_applied, usageRest>>

\* "self._api_usage['short_term']['used'] = usage[0]"
CRL_WriteShort(t) ==
    /\ usage_thr[t].pc = "write_short"
    /\ api_usage' = <<usage_thr[t].usage[1], api_usage[2]>>
    /\ UsageStep(t, [usage_thr[t] EXCEPT !.pc = "write_daily"])
    /\ UNCHANGED <<usage_lock, usage_applied, usageRest>>

\* "self._api_usage['daily']['used'] = usage[1]"
CRL_WriteDaily(t) ==
    /\ usage_thr[t].pc = "write_daily"
    /\ api_usage' = <<api_usage[1], usage_thr[t].usage[2]>>
    /\ usage_applied' = usage_applied \cup {usage_thr[t].usage}
    /\ UsageStep(t, [usage_thr[t] EXCEPT !.pc = "release"])
    /\ UNCHANGED <<usage_lock, usageRest>>

\* "'short_term': dict(self._api_usage['short_term'])"
GAU_ReadShort(t) ==
    /\ usage_thr[t].pc = "read_short"
    /\ UsageStep(t, [usage_thr[t] EXCEPT !.short_term = api_usage[1], !.pc = "read_daily"])
    /\ UNCHANGED <<api_usage, usage_lock, usage_applied, usageRest>>

\* "'daily': dict(self._api_usage['daily'])"
GAU_ReadDaily(t) ==
    /\ usage_thr[t].pc = "read_daily"
    /\ UsageStep(t, [usage_thr[t] EXCEPT !.daily = api_usage[2], !.pc = "release"])
    /\ UNCHANGED <<api_usage, usage_lock, usage_applied, usageRest>>

\* the with block is left; get_api_usage returns the dictionary it built
UsageRelease(t) ==
    /\ usage_thr[t].pc = "release"
    /\ usage_lock' = 0
    /\ UsageStep(t, [usage_thr[t] EXCEPT !.pc = "done", !.header = NoHdr, !.usage = <<>>])
    /\ UNCHANGED <<api_usage, usage_applied, usageRest>>

\* the caller goes on; the thread is free for its next call
UsageReturn(t) ==
    /\ usage_thr[t].pc = "done"
    /\ UsageStep(t, NoUsageFrame)
    /\ UNCHANGED <<api_usage, usage_lock, usage_applied, usageRest>>

InitUsage ==
    /\ ClientInit
    /\ EnvInit
    /\ RateIdle
    /\ CallIdle
    /\ ThreadsIdle
    /\ DbEmpty
    /\ SaveIdle
    /\ LoaderIdle
    /\ SegmentsIdle
    /\ JobsIdle
    /\ TrainingIdle
    /\ PowerIdle
    /\ UsageIdle

NextUsage ==
    \E t \in UsageThreads :
        \/ CRL_Enter(t)
        \/ GAU_Enter(t)
        \/ UsageAcquire(t)
        \/ CRL_Parse(t)
        \/ CRL_WriteShort(t)
        \/ CRL_WriteDaily(t)
        \/ GAU_ReadShort(t)
        \/ GAU_ReadDaily(t)
        \/ UsageRelease(t)
        \/ UsageReturn(t)

SpecUsage == InitUsage /\ [][NextUsage]_vars

\* C29: under any interleaving of concurrent check_rate_limits and
\* get_api_usage calls, the short-term and daily values get_api_usage returns
\* are the initial ones or both come from the usage header of one response,
\* and the steps of a check_rate_limits call whose usage header is missing or
\* malformed leave the counters unchanged.
C29_UsageSnapshot ==
    /\ [](\A t \in UsageThreads :
            (usage_thr[t].fn = "get_api_usage" /\ usage_thr[t].pc = "done") =>
                <<usage_thr[t].short_term, usage_thr[t].daily>>
                    \in {<<0, 0>>} \cup usage_applied)
    /\ [][\A t \in UsageThreads :
            (/\ usage_thr'[t] # usage_thr[t]
             /\ usage_thr[t].fn = "check_rate_limits"
             /\ usage_thr[t].pc \in {"acquire", "parse", "release"}
             /\ parse_rate_limit_header(usage_thr[t].header) = <<>>)
            => api_usage' = api_usage]_vars

\* get_api_usage has returned 20 and 200 while another thread, holding the
\* lock, has written the short-term value of a later response only
C29_Witness ==
    \E t, u \in UsageThreads :
        /\ usage_thr[t].fn = "get_api_usage"
        /\ usage_thr[t].pc = "done"
        /\ usage_thr[t].short_term = 20
        /\ usage_thr[t].daily = 200
        /\ usage_thr[u].pc = "write_daily"
        /\ api_usage = <<10, 200>>

(***************************************************************************)
(* Properties of load_missing_streams, checked under SpecStream.           *)
(***************************************************************************)
RequestSent == posts' > posts \/ Len(gets') > Len(gets)
CandidateEntered ==
    loader.pc = "next" /\ loader'.pc \in {"next", "fetched"} /\ loader' # loader

\* C9: once get_access_token has failed during a run of
\* load_missing_streams the run is aborted: no further candidate is
\* processed and no further request (token exchange or GET) is sent.
C9_Original ==
    [][(token_failures > 0 /\ loader.pc \notin {"idle", "done"})
         => ~RequestSent /\ ~CandidateEntered]_vars

Persisted(pk) == db_activities[pk].normalized_power # NoneVal
AllProcessed == loader.idx = Len(loader.activities) + 1

\* C10 as stated: when the run ends every candidate counted in updated_count
\* has its metrics persisted, whatever errors other candidates met, and
\* every candidate was processed.
C10_Original ==
    (loader.pc = "done" /\ loader.activities # <<>> /\ loader.ret)
        => AllProcessed /\ \A pk \in loader.updated : Persisted(pk)

\* C10 amended: an error never stops the run, and a failed API call (no
\* stream data) costs only its own candidate; but an exception in the loop
\* body or in a commit rolls back the session, so when the run ends the
\* persisted metrics are those of the updated candidates that no rollback
\* dropped, nothing is left uncommitted, and a rollback drops at most the
\* candidates updated since the last commit.
C10_RollbackScope ==
    /\ loader.rolled_back \subseteq loader.updated
    /\ Cardinality(loader.updated) = loader.updated_count
    /\ loader.pc \notin {"idle", "done"} =>
          /\ Cardinality(Dirty(session, db_activities)) < CommitEvery
          /\ Dirty(session, db_activities) \subseteq loader.updated
    /\ (loader.pc = "done" /\ loader.activities # <<>>) =>
          /\ AllProcessed
          /\ session = db_activities
          /\ \A i \in 1..Len(loader.activities) :
                LET pk == loader.activities[i]
                IN  Persisted(pk) <=> pk \in loader.updated \ loader.rolled_back
          /\ (loader.error_count = 0 /\ loader.ret) => loader.rolled_back = {}

\* C10 witness: the run ended after a rollback dropped the metrics of an
\* earlier candidate, a later candidate was still updated and persisted, and
\* a batch of five was committed on the way.
C10_Witness ==
    /\ loader.pc = "done"
    /\ loader.updated_count >= CommitEvery
    /\ \E lost \in loader.rolled_back, kept \in loader.updated \ loader.rolled_back :
          lost < kept /\ Persisted(kept) /\ ~Persisted(lost)

(***************************************************************************)
(* Properties of check_rate_limits (SpecRate).                             *)
(***************************************************************************)
\* A header that is a string "a,b" of two integers.
WellFormedPair(h) ==
    h.present /\ Len(h.parts) = 2 /\ h.parts[1].num /\ h.parts[2].num
\* A reset header that is a count of seconds.
SecondsGiven(h) ==
    h.present /\ Len(h.parts) = 1 /\ h.parts[1].num /\ h.parts[1].val >= 0
\* A family (its usage and limit headers, both well formed) whose short-window
\* usage is within 2 of its short-window limit.
FamilyNearShort(u, l) ==
    /\ WellFormedPair(u)
    /\ WellFormedPair(l)
    /\ u.parts[1].val >= l.parts[1].val - 2
\* A family, both headers well formed, strictly under both of its limits.
FamilyBenign(u, l) ==
    /\ WellFormedPair(u)
    /\ WellFormedPair(l)
    /\ u.parts[1].val < l.parts[1].val - 2
    /\ u.parts[2].val < l.parts[2].val
FamilyNotWellFormed(u, l) == ~WellFormedPair(u) \/ ~WellFormedPair(l)
\* What a header counts as: its own pair, or the given default.
Effective(h, a, b) ==
    IF WellFormedPair(h) THEN <<h.parts[1].val, h.parts[2].val>> ELSE <<a, b>>

\* C7: whenever the short-window usage of the overall or of the read-only
\* family is at least that family's short-window limit minus 2,
\* check_rate_limits returns not-ok after one sleep of X-RateLimit-Reset
\* seconds, or of 15 s when that header is absent or is no count of seconds.
C7_ShortWindowGate ==
    (/\ rl_result # "none"
     /\ \/ FamilyNearShort(rl_headers.usage, rl_headers.limit)
        \/ FamilyNearShort(rl_headers.read_usage, rl_headers.read_limit))
    => /\ rl_result = "wait"
       /\ sleeps = IF SecondsGiven(rl_headers.reset)
                   THEN <<rl_headers.reset.parts[1].val>>
                   ELSE <<15>>

\* C7 witness: usage "99,10" against limit "100,1000" with a reset of 30 s
\* gave not-ok after a 30 s sleep.
C7_Witness ==
    /\ rl_result = "wait"
    /\ rl_headers.usage = Pair(99, 10)
    /\ rl_headers.limit = Pair(100, 1000)
    /\ rl_headers.reset = Hdr(<<Tok(30)>>)
    /\ sleeps = <<30>>

Answered401 == gets' # gets /\ last_resp'.status = 401
\* This step sent a GET whose response check_rate_limits answered not-ok.
GateSaidWait == gets' # gets /\ last_resp'.gate = "wait"

\* C3 as stated: in each of the three functions every 401 response makes the
\* client perform a new refresh-token exchange and, the exchange having
\* succeeded, retry the same request with the new token; after 3 such
\* re-authentications a further 401 ends the call with an empty result.
C3_Original ==
    [][Answered401 =>
        IF call.token_refresh_attempts < MaxTokenRefreshAttempts
        THEN /\ posts' = posts + 1
             /\ access_token' # access_token =>
                   /\ call'.pc = "loop"
                   /\ Request(call') = [Request(call) EXCEPT !.token = access_token']
        ELSE /\ posts' = posts
             /\ call'.pc = "done"
             /\ Falsy(call'.result)]_vars

\* C4 as stated: whenever check_rate_limits returns not-ok for a response, the
\* caller goes on to re-issue the same request; it neither skips the request
\* nor ends the call.
C4_Original ==
    [][GateSaidWait => (call'.pc = "loop" /\ Request(call') = Request(call))]_vars

\* C5 as stated: in fetch_activities a single 429, other HTTP error or network
\* error does not end pagination: when the call ends on such a failure (the
\* rate gate having let the response through), it was not the first one.
C5_Original ==
    (/\ call.fn = "fetch_activities"
     /\ call.pc = "done"
     /\ \/ last_resp.kind = "neterror"
        \/ (last_resp.status \in {429, 500} /\ last_resp.gate = "ok"))
    => transient_failures >= 2

\* The two functions with the bounded retry loop.
RetryFns == {"fetch_activity_stream", "get_segment_efforts"}
\* r is a network error or an HTTP error other than 401, 404 and 429 that the
\* rate gate let through.
TransientError(r) == r.gate # "wait" /\ (r.kind = "neterror" \/ r.status = 500)
\* r made the handlers double retry_delay: a transient error or a 429.
DoubledDelay(r) == r.gate # "wait" /\ (r.kind = "neterror" \/ r.status \in {429, 500})
\* This step sent a GET that was answered by a transient error, and the call
\* goes on to a retry.
BackoffStep ==
    /\ call.fn \in RetryFns
    /\ gets' # gets
    /\ TransientError(last_resp')
    /\ call'.pc = "loop"
\* The wait this step has made, 0 when it made none or several.
WaitMade == IF Len(sleeps') = Len(sleeps) + 1 THEN sleeps'[Len(sleeps')] ELSE 0

\* C25 as stated: every call of fetch_activity_stream or get_segment_efforts
\* ends after at most 3 GET requests whatever the responses, and the waits
\* before retries after transient errors double from 2 s: each is 2 s or 4 s,
\* and one of 4 s comes after one of 2 s.
C25_Original ==
    /\ [](call.fn \in RetryFns => Len(gets) <= 3)
    /\ [][BackoffStep =>
            /\ WaitMade \in {2, 4}
            /\ WaitMade = 4 => \E i \in 1..Len(sleeps) : sleeps[i] = 2]_vars

\* C25 amended: every such call ends after at most 3 GET requests whatever the
\* responses.  The wait before the retry after a transient error is 2 s when
\* the error answers the first request of the call or the request before was
\* answered 401 or stopped by the rate gate, and 4 s when the request before
\* was answered by a transient error or a 429 that passed the rate gate; no
\* wait follows the third request.
C25_BoundedRetries ==
    /\ [](call.fn \in RetryFns => Len(gets) <= 3)
    /\ [][BackoffStep =>
            /\ Len(gets) < 2
            /\ WaitMade = IF gets # <<>> /\ DoubledDelay(last_resp) THEN 4 ELSE 2]_vars
    /\ [][(call.fn \in RetryFns /\ Len(gets) = 2 /\ gets' # gets /\ TransientError(last_resp'))
            => (call'.pc = "done" /\ sleeps' = sleeps)]_vars

\* three requests, each answered by a transient error: waits of 2 s and 4 s
C25_Witness ==
    /\ call.fn \in RetryFns
    /\ call.pc = "done"
    /\ Len(gets) = 3
    /\ transient_failures = 3
    /\ sleeps = <<2, 4>>

\* This step sent a GET of one of the two functions that was answered 404.
Answered404 == call.fn \in RetryFns /\ gets' # gets /\ last_resp'.status = 404

\* C26 as stated: in fetch_activity_stream and get_segment_efforts a 404
\* response ends the call at once with no result, whatever rate-limit headers
\* it carries: no further request is sent and no backoff wait is made.
C26_Original ==
    [][Answered404 =>
        /\ call'.pc = "done"
        /\ call'.result = ReturnNone
        /\ last_resp'.gate = "ok" => sleeps' = sleeps]_vars

RECURSIVE PagesUpTo(_)
PagesUpTo(n) == IF n = 0 THEN <<>> ELSE PagesUpTo(n - 1) \o ProviderPage(n)

\* The call ended in its token handling: no token at the start, or a 401 that
\* was not followed by a retry.
EndedOnAuth == call.pc = "done" /\ (gets = <<>> \/ last_resp.status = 401)

\* C6 as stated: fetch_activities returns exactly the in-order concatenation
\* of all non-empty pages it received.
C6_Original ==
    (call.fn = "fetch_activities" /\ call.pc = "done")
    => call.result = Result("list", call.activities)

\* C6 amended: fetch_activities requests pages 1, 2, 3, ... in increasing
\* order (a page again after a 401) with per_page=200 and the same `after`,
\* advances the page index only after a non-empty page, stops at the first
\* page that returns zero items, sends at most one request per provider page
\* plus one plus 3, and returns the in-order concatenation of the non-empty
\* pages it took in, except that a call ending on failed authentication (no
\* token, or a 401 after 3 re-authentications) returns the empty list.
C6_Pagination ==
    call.fn = "fetch_activities" =>
        /\ \A i \in 1..Len(gets) : gets[i].per_page = 200 /\ gets[i].arg = call.arg
        /\ gets # <<>> => gets[1].page = 1
        /\ \A i \in 1..(Len(gets) - 1) :
              gets[i + 1].page \in {gets[i].page, gets[i].page + 1}
        /\ gets # <<>> =>
              /\ call.page - 1 <= provider_pages
              /\ call.activities = PagesUpTo(call.page - 1)
              /\ call.page = gets[Len(gets)].page
                    + (IF last_resp.status = 200 /\ last_resp.gate = "ok"
                          /\ gets[Len(gets)].page <= provider_pages THEN 1 ELSE 0)
        /\ (/\ gets # <<>>
            /\ last_resp.status = 200
            /\ last_resp.gate = "ok"
            /\ gets[Len(gets)].page > provider_pages) => call.pc = "done"
        /\ Len(gets) <= provider_pages + 1 + 3
        /\ call.pc = "done" =>
              call.result = IF EndedOnAuth THEN Result("list", <<>>)
                            ELSE Result("list", PagesUpTo(call.page - 1))

\* C6 witness: two non-empty pages and the empty third page were fetched and
\* the four items came back in order.
C6_Witness ==
    /\ call.fn = "fetch_activities"
    /\ call.pc = "done"
    /\ provider_pages = 2
    /\ Len(gets) >= 3
    /\ gets[Len(gets)].page = 3
    /\ call.result = Result("list", <<1, 2, 3, 4>>)

====
